---- MODULE Spec2Model ----
(***************************************************************************)
(* Type inference (src/utils/type_detector.py) and JSON flattening /       *)
(* schema detection (src/parsers/json_parser.py) of the ontology           *)
(* generator's parsing layer.                                              *)
(*                                                                         *)
(* Python values are records [kind, n, s, keys, items]:                    *)
(*   none            None                                                  *)
(*   bool            n = 1 (True) or 0 (False)                             *)
(*   int             n = the integer                                       *)
(*   float           n = the number in tenths (25 is 2.5)                  *)
(*   datetime        a native datetime object                             *)
(*   str             s = the text, a sequence of one-character strings     *)
(*   list            items = the elements                                  *)
(*   dict            keys, items = the keys and their values, in           *)
(*                   insertion order                                       *)
(* Texts and dictionary keys are sequences of one-character strings: the   *)
(* classifier inspects texts character by character and the flattener      *)
(* concatenates keys.                                                      *)
(***************************************************************************)
EXTENDS Integers, Sequences, FiniteSets, TLC

VARIABLES
    pc,             \* "call_f": f is about to run; "ret_f": f has returned
    value,          \* infer_type: its argument
    values,         \* infer_column_type: its argument list
    threshold,      \* infer_column_type: its threshold, in tenths
    result,         \* the type the last type_detector call returned
    data,           \* JSONParser: the decoded JSON value of the last call
    heap,           \* the dict objects made for hierarchy maps, by identity
    hierarchy_ref,  \* JSONParser.hierarchy_map: the identity of its dict
    parsed,         \* the ParsedData objects parse has returned so far
    records,        \* what the last _extract_records returned
    schema,         \* what the last detect_schema returned
    raised,         \* the exception the last call ended with, or "none"
    calls,          \* how many inputs this JSONParser instance was given
    file,           \* DataValidator: the file at the path of the last call
    file_format,    \* DataValidator.file_format
    validation_errors,  \* DataValidator.validation_errors
    returned,       \* what the last validate_file returned
    validations     \* how many validate_file calls the instance was given

vars == <<pc, value, values, threshold, result,
          data, heap, hierarchy_ref, parsed, records, schema, raised, calls,
          file, file_format, validation_errors, returned, validations>>

typeVars == <<value, values, threshold, result>>
parserVars ==
    <<data, heap, hierarchy_ref, parsed, records, schema, raised, calls>>

validatorVars ==
    <<file, file_format, validation_errors, returned, validations>>

\* the contents of the dict self.hierarchy_map is bound to
hierarchy_map == heap[hierarchy_ref]

(***************************************************************************)
(* Python values                                                           *)
(***************************************************************************)
PyVal(kind, n, s, keys, items) ==
    [kind |-> kind, n |-> n, s |-> s, keys |-> keys, items |-> items]

PyNone == PyVal("none", 0, <<>>, <<>>, <<>>)
PyBool(b) == PyVal("bool", IF b THEN 1 ELSE 0, <<>>, <<>>, <<>>)
PyInt(n) == PyVal("int", n, <<>>, <<>>, <<>>)
PyFloat(tenths) == PyVal("float", tenths, <<>>, <<>>, <<>>)
PyDateTime == PyVal("datetime", 0, <<>>, <<>>, <<>>)
PyStr(s) == PyVal("str", 0, s, <<>>, <<>>)
PyList(items) == PyVal("list", 0, <<>>, <<>>, items)
PyDict(keys, items) == PyVal("dict", 0, <<>>, keys, items)

\* class DataType(Enum)
DT_STRING == "string"
DT_INTEGER == "integer"
DT_FLOAT == "float"
DT_BOOLEAN == "boolean"
DT_DATETIME == "datetime"
DT_NULL == "null"
DT_UNKNOWN == "unknown"

DataType ==
    {DT_STRING, DT_INTEGER, DT_FLOAT, DT_BOOLEAN, DT_DATETIME, DT_NULL,
     DT_UNKNOWN}

(***************************************************************************)
(* Text helpers: str.strip, str.upper, str.lower, membership               *)
(***************************************************************************)
Digits == {"0", "1", "2", "3", "4", "5", "6", "7", "8", "9"}

DigitVal(c) ==
    CASE c = "0" -> 0 [] c = "1" -> 1 [] c = "2" -> 2 [] c = "3" -> 3
      [] c = "4" -> 4 [] c = "5" -> 5 [] c = "6" -> 6 [] c = "7" -> 7
      [] c = "8" -> 8 [] c = "9" -> 9

DigitChar(d) == <<"0", "1", "2", "3", "4", "5", "6", "7", "8", "9">>[d + 1]

LowerLetters ==
    <<"a", "b", "c", "d", "e", "f", "g", "h", "i", "j", "k", "l", "m",
      "n", "o", "p", "q", "r", "s", "t", "u", "v", "w", "x", "y", "z">>

UpperLetters ==
    <<"A", "B", "C", "D", "E", "F", "G", "H", "I", "J", "K", "L", "M",
      "N", "O", "P", "Q", "R", "S", "T", "U", "V", "W", "X", "Y", "Z">>

UpperChar(c) ==
    IF \E i \in 1..26 : LowerLetters[i] = c
    THEN UpperLetters[CHOOSE i \in 1..26 : LowerLetters[i] = c]
    ELSE c

LowerChar(c) ==
    IF \E i \in 1..26 : UpperLetters[i] = c
    THEN LowerLetters[CHOOSE i \in 1..26 : UpperLetters[i] = c]
    ELSE c

Upper(t) == [i \in 1..Len(t) |-> UpperChar(t[i])]
Lower(t) == [i \in 1..Len(t) |-> LowerChar(t[i])]

IsSpace(c) == c \in {" ", "\t"}

Contains(t, c) == \E i \in 1..Len(t) : t[i] = c

\* str.strip(): drop the leading and the trailing whitespace
Strip(t) ==
    IF \A i \in 1..Len(t) : IsSpace(t[i])
    THEN <<>>
    ELSE LET first == CHOOSE i \in 1..Len(t) :
                          /\ ~IsSpace(t[i])
                          /\ \A j \in 1..(i - 1) : IsSpace(t[j])
             last == CHOOSE i \in 1..Len(t) :
                          /\ ~IsSpace(t[i])
                          /\ \A j \in (i + 1)..Len(t) : IsSpace(t[j])
         IN  SubSeq(t, first, last)

(***************************************************************************)
(* int(text) and float(text): which texts parse                            *)
(***************************************************************************)
\* digit (["_"] digit)*
IsDigitPart(t) ==
    /\ Len(t) > 0
    /\ \A i \in 1..Len(t) : t[i] \in Digits \cup {"_"}
    /\ t[1] \in Digits
    /\ t[Len(t)] \in Digits
    /\ \A i \in 1..(Len(t) - 1) : ~(t[i] = "_" /\ t[i + 1] = "_")

Unsigned(t) ==
    IF Len(t) > 0 /\ t[1] \in {"+", "-"} THEN Tail(t) ELSE t

\* int(value) does not raise ValueError
IntParses(t) == IsDigitPart(Unsigned(t))

\* position of the first character of t that is in cs, or 0
FirstIn(t, cs) ==
    IF \E i \in 1..Len(t) : t[i] \in cs
    THEN CHOOSE i \in 1..Len(t) :
             t[i] \in cs /\ \A j \in 1..(i - 1) : t[j] \notin cs
    ELSE 0

IsMantissa(t) ==
    LET dot == FirstIn(t, {"."}) IN
    IF dot = 0
    THEN IsDigitPart(t)
    ELSE LET whole == SubSeq(t, 1, dot - 1)
             frac == SubSeq(t, dot + 1, Len(t))
         IN  /\ whole = <<>> \/ IsDigitPart(whole)
             /\ frac = <<>> \/ IsDigitPart(frac)
             /\ ~(whole = <<>> /\ frac = <<>>)

\* float(value) does not raise ValueError
FloatParses(t) ==
    LET u == Unsigned(t)
        e == FirstIn(u, {"e", "E"})
    IN  \/ Lower(u) \in {<<"i", "n", "f">>, <<"n", "a", "n">>,
                         <<"i", "n", "f", "i", "n", "i", "t", "y">>}
        \/ /\ e = 0
           /\ IsMantissa(u)
        \/ /\ e > 0
           /\ IsMantissa(SubSeq(u, 1, e - 1))
           /\ IsDigitPart(Unsigned(SubSeq(u, e + 1, Len(u))))

(***************************************************************************)
(* datetime.strptime(text, fmt) for the directives of DATETIME_FORMATS     *)
(***************************************************************************)
Directives == {"%Y", "%m", "%d", "%H", "%M", "%S"}

\* value of a text of digits, a leading blank skipped (int() of the group)
RECURSIVE NumVal(_)
NumVal(t) ==
    IF t = <<>> THEN 0
    ELSE IF t[1] \notin Digits THEN NumVal(Tail(t))
    ELSE NumVal(SubSeq(t, 1, Len(t) - 1)) * 10 + DigitVal(t[Len(t)])

AllDigits(t) == \A i \in 1..Len(t) : t[i] \in Digits

\* the regular expression strptime compiles for a directive, on a whole group
DirMatches(dir, f) ==
    CASE dir = "%Y" -> Len(f) = 4 /\ AllDigits(f)
      [] dir = "%m" -> \/ Len(f) = 2 /\ AllDigits(f) /\ NumVal(f) \in 1..12
                       \/ Len(f) = 1 /\ AllDigits(f) /\ NumVal(f) \in 1..9
      [] dir = "%d" -> \/ Len(f) = 2 /\ AllDigits(f) /\ NumVal(f) \in 1..31
                       \/ Len(f) = 1 /\ AllDigits(f) /\ NumVal(f) \in 1..9
                       \/ Len(f) = 2 /\ f[1] = " " /\ f[2] \in Digits \ {"0"}
      [] dir = "%H" -> \/ Len(f) = 2 /\ AllDigits(f) /\ NumVal(f) \in 0..23
                       \/ Len(f) = 1 /\ AllDigits(f)
      [] dir = "%M" -> \/ Len(f) = 2 /\ AllDigits(f) /\ NumVal(f) \in 0..59
                       \/ Len(f) = 1 /\ AllDigits(f)
      [] dir = "%S" -> \/ Len(f) = 2 /\ AllDigits(f) /\ NumVal(f) \in 0..61
                       \/ Len(f) = 1 /\ AllDigits(f)

DirWidths(dir) == IF dir = "%Y" THEN {4} ELSE {1, 2}

StrpDefaults ==
    [dir \in Directives |->
        CASE dir = "%Y" -> 1900 [] dir = "%m" -> 1 [] dir = "%d" -> 1
          [] OTHER -> 0]

\* the ways the format's expression matches the whole text, as the groups'
\* values; blanks of the format match \s+, letters match in either case
RECURSIVE StrpParses(_, _)
StrpParses(fmt, text) ==
    IF fmt = <<>>
    THEN IF text = <<>> THEN {StrpDefaults} ELSE {}
    ELSE LET tok == Head(fmt) IN
         IF tok \in Directives
         THEN UNION {
                 {[r EXCEPT ![tok] = NumVal(SubSeq(text, 1, w))] :
                     r \in StrpParses(Tail(fmt),
                                      SubSeq(text, w + 1, Len(text)))} :
                 w \in {x \in DirWidths(tok) :
                          /\ x <= Len(text)
                          /\ DirMatches(tok, SubSeq(text, 1, x))}}
         ELSE IF tok = " "
         THEN UNION {
                 StrpParses(Tail(fmt), SubSeq(text, n + 1, Len(text))) :
                 n \in {x \in 1..Len(text) :
                          \A i \in 1..x : IsSpace(text[i])}}
         ELSE IF text # <<>> /\ LowerChar(text[1]) = LowerChar(tok)
         THEN StrpParses(Tail(fmt), Tail(text))
         ELSE {}

IsLeap(y) == (y % 4 = 0 /\ y % 100 # 0) \/ y % 400 = 0

DaysInMonth(y, m) ==
    IF m = 2 THEN (IF IsLeap(y) THEN 29 ELSE 28)
    ELSE IF m \in {4, 6, 9, 11} THEN 30 ELSE 31

\* the datetime constructor accepts the parsed groups
ValidDateTime(r) ==
    /\ r["%Y"] >= 1
    /\ r["%d"] <= DaysInMonth(r["%Y"], r["%m"])
    /\ r["%S"] <= 59

\* datetime.strptime(text, fmt) does not raise ValueError
Strptime(text, fmt) == \E r \in StrpParses(fmt, text) : ValidDateTime(r)

\* the formats with month/day/year tried before day/month/year
DATETIME_FORMATS_month_first == <<
    [id |-> "%Y-%m-%dT%H:%M:%SZ",
     fmt |-> <<"%Y", "-", "%m", "-", "%d", "T", "%H", ":", "%M", ":", "%S", "Z">>],
    [id |-> "%Y-%m-%dT%H:%M:%S",
     fmt |-> <<"%Y", "-", "%m", "-", "%d", "T", "%H", ":", "%M", ":", "%S">>],
    [id |-> "%Y-%m-%d %H:%M:%S",
     fmt |-> <<"%Y", "-", "%m", "-", "%d", " ", "%H", ":", "%M", ":", "%S">>],
    [id |-> "%Y-%m-%d", fmt |-> <<"%Y", "-", "%m", "-", "%d">>],
    [id |-> "%m/%d/%Y", fmt |-> <<"%m", "/", "%d", "/", "%Y">>],
    [id |-> "%d/%m/%Y", fmt |-> <<"%d", "/", "%m", "/", "%Y">>],
    [id |-> "%d-%m-%Y", fmt |-> <<"%d", "-", "%m", "-", "%Y">>],
    [id |-> "%Y/%m/%d", fmt |-> <<"%Y", "/", "%m", "/", "%d">>] >>

DATETIME_FORMATS == <<
    [id |-> "%Y-%m-%dT%H:%M:%SZ",
     fmt |-> <<"%Y", "-", "%m", "-", "%d", "T", "%H", ":", "%M", ":", "%S", "Z">>],
    [id |-> "%Y-%m-%dT%H:%M:%S",
     fmt |-> <<"%Y", "-", "%m", "-", "%d", "T", "%H", ":", "%M", ":", "%S">>],
    [id |-> "%Y-%m-%d %H:%M:%S",
     fmt |-> <<"%Y", "-", "%m", "-", "%d", " ", "%H", ":", "%M", ":", "%S">>],
    [id |-> "%Y-%m-%d", fmt |-> <<"%Y", "-", "%m", "-", "%d">>],
    [id |-> "%d/%m/%Y", fmt |-> <<"%d", "/", "%m", "/", "%Y">>],
    [id |-> "%m/%d/%Y", fmt |-> <<"%m", "/", "%d", "/", "%Y">>],
    [id |-> "%d-%m-%Y", fmt |-> <<"%d", "-", "%m", "-", "%Y">>],
    [id |-> "%Y/%m/%d", fmt |-> <<"%Y", "/", "%m", "/", "%d">>] >>

\* re.match(iso_pattern, value):
\* ^\d{4}-\d{2}-\d{2}T\d{2}:\d{2}:\d{2}(\.\d+)?Z?$
IsoPatternMatches(t) ==
    /\ Len(t) >= 19
    /\ \A i \in {1, 2, 3, 4, 6, 7, 9, 10, 12, 13, 15, 16, 18, 19} :
           t[i] \in Digits
    /\ t[5] = "-" /\ t[8] = "-" /\ t[11] = "T"
    /\ t[14] = ":" /\ t[17] = ":"
    /\ LET rest == SubSeq(t, 20, Len(t))
           frac == IF rest # <<>> /\ rest[Len(rest)] = "Z"
                   THEN SubSeq(rest, 1, Len(rest) - 1)
                   ELSE rest
       IN  \/ frac = <<>>
           \/ /\ Len(frac) >= 2
              /\ frac[1] = "."
              /\ AllDigits(Tail(frac))

_is_datetime(v) ==
    \/ \E i \in 1..Len(DATETIME_FORMATS) : Strptime(v, DATETIME_FORMATS[i].fmt)
    \/ IsoPatternMatches(v)

\* detect_date_format answering for the ISO fallback pattern too
detect_date_format_with_fallback(v) ==
    IF \E i \in 1..Len(DATETIME_FORMATS) : Strptime(v, DATETIME_FORMATS[i].fmt)
    THEN DATETIME_FORMATS[
             CHOOSE i \in 1..Len(DATETIME_FORMATS) :
                 /\ Strptime(v, DATETIME_FORMATS[i].fmt)
                 /\ \A j \in 1..(i - 1) : ~Strptime(v, DATETIME_FORMATS[j].fmt)].id
    ELSE IF IsoPatternMatches(v) THEN DATETIME_FORMATS[1].id
    ELSE "None"

\* the format string of the first format that parses, or "None"
detect_date_format(v) ==
    IF \E i \in 1..Len(DATETIME_FORMATS) : Strptime(v, DATETIME_FORMATS[i].fmt)
    THEN DATETIME_FORMATS[
             CHOOSE i \in 1..Len(DATETIME_FORMATS) :
                 /\ Strptime(v, DATETIME_FORMATS[i].fmt)
                 /\ \A j \in 1..(i - 1) : ~Strptime(v, DATETIME_FORMATS[j].fmt)].id
    ELSE "None"

(***************************************************************************)
(* str(value) and repr(value)                                              *)
(***************************************************************************)
RECURSIVE NatStr(_)
NatStr(n) ==
    IF n < 10 THEN <<DigitChar(n)>>
    ELSE NatStr(n \div 10) \o <<DigitChar(n % 10)>>

IntStr(n) == IF n < 0 THEN <<"-">> \o NatStr(-n) ELSE NatStr(n)

\* a float held in tenths: 25 prints as 2.5, 40 as 4.0
FloatStr(n) ==
    LET a == IF n < 0 THEN -n ELSE n IN
    (IF n < 0 THEN <<"-">> ELSE <<>>)
        \o NatStr(a \div 10) \o <<".">> \o <<DigitChar(a % 10)>>

\* sep.join(parts)
RECURSIVE Join(_, _)
Join(sep, parts) ==
    IF parts = <<>> THEN <<>>
    ELSE IF Len(parts) = 1 THEN parts[1]
    ELSE parts[1] \o sep \o Join(sep, Tail(parts))

RECURSIVE Repr(_)
Repr(v) ==
    CASE v.kind = "none" -> <<"N", "o", "n", "e">>
      [] v.kind = "bool" -> IF v.n = 1 THEN <<"T", "r", "u", "e">>
                            ELSE <<"F", "a", "l", "s", "e">>
      [] v.kind = "int" -> IntStr(v.n)
      [] v.kind = "float" -> FloatStr(v.n)
      [] v.kind = "datetime" ->
             <<"d", "a", "t", "e", "t", "i", "m", "e", "(", ")">>
      [] v.kind = "str" -> <<"'">> \o v.s \o <<"'">>
      [] v.kind = "list" ->
             <<"[">>
                 \o Join(<<",", " ">>,
                         [i \in 1..Len(v.items) |-> Repr(v.items[i])])
                 \o <<"]">>
      [] v.kind = "dict" ->
             <<"{">>
                 \o Join(<<",", " ">>,
                         [i \in 1..Len(v.items) |->
                             <<"'">> \o v.keys[i] \o <<"'", ":", " ">>
                                 \o Repr(v.items[i])])
                 \o <<"}">>

Str(v) == IF v.kind = "str" THEN v.s ELSE Repr(v)

(***************************************************************************)
(* infer_type                                                              *)
(***************************************************************************)
NullTokens ==
    {<<"N", "U", "L", "L">>, <<"N", "O", "N", "E">>, <<"N", "/", "A">>,
     <<"N", "A">>, <<"N", "A", "N">>,
     <<"U", "N", "D", "E", "F", "I", "N", "E", "D">>}

BoolWords ==
    {<<"T", "R", "U", "E">>, <<"F", "A", "L", "S", "E">>, <<"Y", "E", "S">>,
     <<"N", "O">>, <<"Y">>, <<"N">>}

BoolTokens == BoolWords \cup {<<"1">>, <<"0">>}

\* infer_type's text checks with "1" and "0" returned as booleans
InferTextType_digits_boolean(t) ==
    IF t = <<>> THEN DT_NULL
    ELSE IF Upper(t) \in NullTokens THEN DT_NULL
    ELSE IF Upper(t) \in BoolTokens THEN DT_BOOLEAN
    ELSE IF IntParses(t) /\ ~Contains(t, ".") /\ ~Contains(Lower(t), "e")
         THEN DT_INTEGER
    ELSE IF FloatParses(t) THEN DT_FLOAT
    ELSE IF _is_datetime(t) THEN DT_DATETIME
    ELSE DT_STRING

\* the checks on the trimmed text, lines 70-104
InferTextType(t) ==
    IF t = <<>> THEN DT_NULL
    ELSE IF Upper(t) \in NullTokens THEN DT_NULL
    ELSE IF Upper(t) \in BoolTokens /\ Upper(t) \in BoolWords THEN DT_BOOLEAN
    ELSE IF IntParses(t) /\ ~Contains(t, ".") /\ ~Contains(Lower(t), "e")
         THEN DT_INTEGER
    ELSE IF FloatParses(t) THEN DT_FLOAT
    ELSE IF _is_datetime(t) THEN DT_DATETIME
    ELSE DT_STRING

infer_type(v) ==
    IF v.kind = "none" \/ (v.kind = "str" /\ Strip(v.s) = <<>>) THEN DT_NULL
    ELSE IF v.kind = "bool" THEN DT_BOOLEAN
    ELSE IF v.kind = "int" THEN DT_INTEGER
    ELSE IF v.kind = "float" THEN DT_FLOAT
    ELSE IF v.kind = "datetime" THEN DT_DATETIME
    ELSE InferTextType(Strip(Str(v)))

(***************************************************************************)
(* infer_column_type                                                       *)
(***************************************************************************)
\* Counter[t] += 1: a Counter keeps its keys in insertion order
CounterAdd(counter, t) ==
    IF \E i \in 1..Len(counter) : counter[i].type = t
    THEN [i \in 1..Len(counter) |->
             IF counter[i].type = t
             THEN [counter[i] EXCEPT !.count = @ + 1]
             ELSE counter[i]]
    ELSE Append(counter, [type |-> t, count |-> 1])

\* the loop of lines 170-175: type_counts and null_count after all values
RECURSIVE Tally(_)
Tally(vals) ==
    IF vals = <<>>
    THEN [type_counts |-> <<>>, null_count |-> 0]
    ELSE LET before == Tally(SubSeq(vals, 1, Len(vals) - 1))
             detected_type == infer_type(vals[Len(vals)])
         IN  IF detected_type = DT_NULL
             THEN [before EXCEPT !.null_count = @ + 1]
             ELSE [before EXCEPT
                      !.type_counts = CounterAdd(@, detected_type)]

\* the last entry holding the highest count taken instead of the first
MostCommon_last_seen(counter) ==
    counter[CHOOSE i \in 1..Len(counter) :
                /\ \A j \in 1..Len(counter) : counter[j].count <= counter[i].count
                /\ \A j \in (i + 1)..Len(counter) :
                       counter[j].count < counter[i].count]

\* Counter.most_common(1)[0]: the first entry holding the highest count
MostCommon(counter) ==
    counter[CHOOSE i \in 1..Len(counter) :
                /\ \A j \in 1..Len(counter) : counter[j].count <= counter[i].count
                /\ \A j \in 1..(i - 1) : counter[j].count < counter[i].count]

InCounter(counter, t) == \E i \in 1..Len(counter) : counter[i].type = t

\* infer_column_type with the int/float widening tried before the agreement
infer_column_type_widening_first(vals, thr) ==
    IF vals = <<>> THEN DT_UNKNOWN
    ELSE LET tally == Tally(vals)
             type_counts == tally.type_counts
         IN  IF type_counts = <<>> THEN DT_NULL
             ELSE LET most == MostCommon(type_counts)
                      total_non_null == Len(vals) - tally.null_count
                  IN  IF /\ InCounter(type_counts, DT_INTEGER)
                         /\ InCounter(type_counts, DT_FLOAT)
                      THEN DT_FLOAT
                      ELSE IF most.count * 10 >= thr * total_non_null
                      THEN most.type
                      ELSE DT_STRING

\* infer_column_type without the early return for an empty list
infer_column_type_no_empty_check(vals, thr) ==
    LET tally == Tally(vals)
        type_counts == tally.type_counts
    IN  IF type_counts = <<>> THEN DT_NULL
        ELSE LET most == MostCommon(type_counts)
                 total_non_null == Len(vals) - tally.null_count
             IN  IF most.count * 10 >= thr * total_non_null
                 THEN most.type
                 ELSE IF /\ InCounter(type_counts, DT_INTEGER)
                         /\ InCounter(type_counts, DT_FLOAT)
                 THEN DT_FLOAT
                 ELSE DT_STRING

\* the agreement ratio taken over all the values, nulls included
infer_column_type_nulls_in_denominator(vals, thr) ==
    IF vals = <<>> THEN DT_UNKNOWN
    ELSE LET tally == Tally(vals)
             type_counts == tally.type_counts
         IN  IF type_counts = <<>> THEN DT_NULL
             ELSE LET most == MostCommon(type_counts)
                  IN  IF most.count * 10 >= thr * Len(vals)
                      THEN most.type
                      ELSE IF /\ InCounter(type_counts, DT_INTEGER)
                              /\ InCounter(type_counts, DT_FLOAT)
                      THEN DT_FLOAT
                      ELSE DT_STRING

\* agreement accepted at half the threshold, which a tie can reach
infer_column_type_half_threshold(vals, thr) ==
    IF vals = <<>> THEN DT_UNKNOWN
    ELSE LET tally == Tally(vals)
             type_counts == tally.type_counts
         IN  IF type_counts = <<>> THEN DT_NULL
             ELSE LET most == MostCommon(type_counts)
                      total_non_null == Len(vals) - tally.null_count
                  IN  IF most.count * 20 >= thr * total_non_null
                      THEN most.type
                      ELSE IF /\ InCounter(type_counts, DT_INTEGER)
                              /\ InCounter(type_counts, DT_FLOAT)
                      THEN DT_FLOAT
                      ELSE DT_STRING

\* the threshold thr is in tenths: count / total >= thr / 10
infer_column_type(vals, thr) ==
    IF vals = <<>> THEN DT_UNKNOWN
    ELSE LET tally == Tally(vals)
             type_counts == tally.type_counts
         IN  IF type_counts = <<>> THEN DT_NULL
             ELSE LET most == MostCommon(type_counts)
                      total_non_null == Len(vals) - tally.null_count
                  IN  IF most.count * 10 >= thr * total_non_null
                      THEN most.type
                      ELSE IF /\ InCounter(type_counts, DT_INTEGER)
                              /\ InCounter(type_counts, DT_FLOAT)
                      THEN DT_FLOAT
                      ELSE DT_STRING

(***************************************************************************)
(* dict operations and json.dumps                                          *)
(***************************************************************************)
EmptyDict == PyDict(<<>>, <<>>)

DictHas(d, k) == \E i \in 1..Len(d.keys) : d.keys[i] = k

DictIndex(d, k) == CHOOSE i \in 1..Len(d.keys) : d.keys[i] = k

\* d.get(k): None when the key is absent
DictGet(d, k) == IF DictHas(d, k) THEN d.items[DictIndex(d, k)] ELSE PyNone

\* a present key keeps its value: the first write wins
DictSet_first_wins(d, k, v) ==
    IF DictHas(d, k)
    THEN d
    ELSE [d EXCEPT !.keys = Append(@, k), !.items = Append(@, v)]

\* d[k] = v: a present key keeps its position, a new key goes last
DictSet(d, k, v) ==
    IF DictHas(d, k)
    THEN [d EXCEPT !.items[DictIndex(d, k)] = v]
    ELSE [d EXCEPT !.keys = Append(@, k), !.items = Append(@, v)]

\* d.update(other)
RECURSIVE DictUpdate(_, _)
DictUpdate(d, other) ==
    IF other.keys = <<>> THEN d
    ELSE DictUpdate(DictSet(d, other.keys[1], other.items[1]),
                    PyDict(Tail(other.keys), Tail(other.items)))

\* json.dumps(value) with the default separators, for texts that need no
\* escaping
RECURSIVE JsonDumps(_)
JsonDumps(v) ==
    CASE v.kind = "none" -> <<"n", "u", "l", "l">>
      [] v.kind = "bool" -> IF v.n = 1 THEN <<"t", "r", "u", "e">>
                            ELSE <<"f", "a", "l", "s", "e">>
      [] v.kind = "int" -> IntStr(v.n)
      [] v.kind = "float" -> FloatStr(v.n)
      [] v.kind = "str" -> <<"\"">> \o v.s \o <<"\"">>
      [] v.kind = "list" ->
             <<"[">>
                 \o Join(<<",", " ">>,
                         [i \in 1..Len(v.items) |-> JsonDumps(v.items[i])])
                 \o <<"]">>
      [] v.kind = "dict" ->
             <<"{">>
                 \o Join(<<",", " ">>,
                         [i \in 1..Len(v.items) |->
                             <<"\"">> \o v.keys[i] \o <<"\"", ":", " ">>
                                 \o JsonDumps(v.items[i])])
                 \o <<"}">>

(***************************************************************************)
(* JSONParser: flattening                                                  *)
(***************************************************************************)
\* the default of _flatten_object's max_depth parameter
DEFAULT_MAX_DEPTH == 3

ENTITY_TYPE == <<"_", "e", "n", "t", "i", "t", "y", "_", "t", "y", "p", "e">>
VALUE == <<"v", "a", "l", "u", "e">>

\* the depth test off by one: an object met at max_depth is still flattened
ShouldRecurse_inclusive(item, max_depth, current_depth) ==
    item.kind = "dict" /\ current_depth <= max_depth

\* isinstance(value, dict) and current_depth < max_depth
ShouldRecurse(item, max_depth, current_depth) ==
    item.kind = "dict" /\ current_depth < max_depth

\* isinstance(value, list) and len(value) > 0 and isinstance(value[0], dict)
IsObjectList(item) ==
    /\ item.kind = "list"
    /\ Len(item.items) > 0
    /\ item.items[1].kind = "dict"

\* the element test with None accepted as a simple element
IsSimpleList_allows_none(items) ==
    \A i \in 1..Len(items) :
        items[i].kind \in {"str", "int", "float", "bool", "none"}

\* all(isinstance(v, (str, int, float, bool)) for v in value)
IsSimpleList(items) ==
    \A i \in 1..Len(items) : items[i].kind \in {"str", "int", "float", "bool"}

\* the text stored for a list value, lines 179-188
FlattenList(item) ==
    IF IsObjectList(item) THEN PyStr(JsonDumps(item))
    ELSE IF IsSimpleList(item.items)
    THEN PyStr(Join(<<",", " ">>,
                    [i \in 1..Len(item.items) |-> Str(item.items[i])]))
    ELSE PyStr(JsonDumps(item))

RECURSIVE _flatten_object(_, _, _, _)
RECURSIVE FlattenItems(_, _, _, _, _)

\* flattened after the loop of lines 170-191 has handled the first n items
FlattenItems(obj, prefix, max_depth, current_depth, n) ==
    IF n = 0 THEN EmptyDict
    ELSE LET flattened ==
                 FlattenItems(obj, prefix, max_depth, current_depth, n - 1)
             item == obj.items[n]
             new_key == prefix \o obj.keys[n]
         IN  IF ShouldRecurse(item, max_depth, current_depth)
             THEN DictUpdate(flattened,
                             _flatten_object(item, new_key \o <<"_">>,
                                             max_depth, current_depth + 1))
             ELSE IF item.kind = "list"
             THEN DictSet(flattened, new_key, FlattenList(item))
             ELSE DictSet(flattened, new_key, item)

_flatten_object(obj, prefix, max_depth, current_depth) ==
    FlattenItems(obj, prefix, max_depth, current_depth, Len(obj.keys))

\* _flatten_records keeping only the object elements
_flatten_records_objects_only(items) ==
    LET objects == SelectSeq(items, LAMBDA x : x.kind = "dict") IN
    [i \in 1..Len(objects) |->
        _flatten_object(objects[i], <<>>, DEFAULT_MAX_DEPTH, 0)]

_flatten_records(items) ==
    [i \in 1..Len(items) |->
        IF items[i].kind = "dict"
        THEN _flatten_object(items[i], <<>>, DEFAULT_MAX_DEPTH, 0)
        ELSE PyDict(<<VALUE>>, <<items[i]>>)]

\* the share test strict: exactly half the keys being lists is not enough
_is_collection_dict_strict(d) ==
    LET list_count ==
            Cardinality({i \in 1..Len(d.keys) : d.items[i].kind = "list"})
    IN  list_count > 0 /\ 2 * list_count > Len(d.keys)

\* list_count > 0 and list_count >= len(data) * 0.5
_is_collection_dict(d) ==
    LET list_count ==
            Cardinality({i \in 1..Len(d.keys) : d.items[i].kind = "list"})
    IN  list_count > 0 /\ 2 * list_count >= Len(d.keys)

\* the stamp written before the item's fields: an item field named
\* "_entity_type" after prefixing replaces it
CollectionRecords_stamp_first(collection_name, collection_data) ==
    [i \in 1..Len(collection_data.items) |->
        LET item == collection_data.items[i] IN
        IF item.kind = "dict"
        THEN DictUpdate(PyDict(<<ENTITY_TYPE>>, <<PyStr(collection_name)>>),
                        _flatten_object(item, collection_name \o <<"_">>,
                                        DEFAULT_MAX_DEPTH, 0))
        ELSE PyDict(<<ENTITY_TYPE, VALUE>>, <<PyStr(collection_name), item>>)]

\* the records of one collection, lines 124-133
CollectionRecords(collection_name, collection_data) ==
    [i \in 1..Len(collection_data.items) |->
        LET item == collection_data.items[i] IN
        IF item.kind = "dict"
        THEN DictSet(_flatten_object(item, collection_name \o <<"_">>,
                                     DEFAULT_MAX_DEPTH, 0),
                     ENTITY_TYPE, PyStr(collection_name))
        ELSE PyDict(<<ENTITY_TYPE, VALUE>>, <<PyStr(collection_name), item>>)]

\* a key that holds no list gives a record as well
RECURSIVE CollectionLoop_every_key(_, _, _)
CollectionLoop_every_key(d, hmap, n) ==
    IF n = 0 THEN [all_records |-> <<>>, hierarchy_map |-> hmap]
    ELSE LET before == CollectionLoop_every_key(d, hmap, n - 1)
             collection_name == d.keys[n]
             collection_data == d.items[n]
         IN  IF collection_data.kind = "list"
             THEN [all_records |->
                       before.all_records
                           \o CollectionRecords(collection_name,
                                                collection_data),
                   hierarchy_map |->
                       DictSet(before.hierarchy_map, collection_name,
                               PyInt(Len(collection_data.items)))]
             ELSE [all_records |->
                       Append(before.all_records,
                              PyDict(<<ENTITY_TYPE, VALUE>>,
                                     <<PyStr(collection_name),
                                       collection_data>>)),
                   hierarchy_map |-> before.hierarchy_map]

\* all_records and self.hierarchy_map after the loop of lines 118-133 has
\* handled the first n keys, starting from the hierarchy map hmap
RECURSIVE CollectionLoop(_, _, _)
CollectionLoop(d, hmap, n) ==
    IF n = 0 THEN [all_records |-> <<>>, hierarchy_map |-> hmap]
    ELSE LET before == CollectionLoop(d, hmap, n - 1)
             collection_name == d.keys[n]
             collection_data == d.items[n]
         IN  IF collection_data.kind = "list"
             THEN [all_records |->
                       before.all_records
                           \o CollectionRecords(collection_name,
                                                collection_data),
                   hierarchy_map |->
                       DictSet(before.hierarchy_map, collection_name,
                               PyInt(Len(collection_data.items)))]
             ELSE before

_flatten_collection_dict(d, hmap) == CollectionLoop(d, hmap, Len(d.keys))

\* the reset dropped: the instance keeps the map of its earlier call
ResetHierarchyMap_missing(h, ref) == [heap |-> h, ref |-> ref]

\* the reset done in place, self.hierarchy_map.clear(): the dict handed out
\* earlier is emptied
ResetHierarchyMap_in_place(h, ref) ==
    [heap |-> [h EXCEPT ![ref] = EmptyDict], ref |-> ref]

\* self.hierarchy_map = {}, line 73: the attribute is bound to a new dict
ResetHierarchyMap(h, ref) ==
    [heap |-> Append(h, EmptyDict), ref |-> Len(h) + 1]

\* _extract_records(data) on an instance whose hierarchy_map is the dict
\* ref of the heap h: the returned records, and the heap and the
\* instance's hierarchy_map afterwards
_extract_records(d, h, ref) ==
    LET reset == ResetHierarchyMap(h, ref)
        hmap == reset.heap[reset.ref]
        out ==
            IF d.kind = "list"
            THEN [all_records |-> _flatten_records(d.items),
                  hierarchy_map |-> hmap]
            ELSE IF d.kind = "dict"
            THEN IF _is_collection_dict(d)
                 THEN _flatten_collection_dict(d, hmap)
                 ELSE [all_records |->
                           <<_flatten_object(d, <<>>, DEFAULT_MAX_DEPTH, 0)>>,
                       hierarchy_map |-> hmap]
            ELSE [all_records |-> <<PyDict(<<VALUE>>, <<d>>)>>,
                  hierarchy_map |-> hmap]
    IN  [all_records |-> out.all_records,
         heap |-> [reset.heap EXCEPT ![reset.ref] = out.hierarchy_map],
         ref |-> reset.ref]

(***************************************************************************)
(* JSONParser.detect_schema                                                *)
(***************************************************************************)
\* the field names taken from the first record only
AllFields_first_record(recs) == IF recs = <<>> THEN <<>> ELSE recs[1].keys

\* the keys of all records, in first-seen order
RECURSIVE AllFields(_)
AllFields(recs) ==
    IF recs = <<>> THEN <<>>
    ELSE LET before == AllFields(SubSeq(recs, 1, Len(recs) - 1))
             fresh == SelectSeq(recs[Len(recs)].keys,
                                LAMBDA k : \A i \in 1..Len(before) :
                                               before[i] # k)
         IN  before \o fresh

\* the values gathered from the records that hold the field only
FieldValues_present_only(recs, field) ==
    LET holders == SelectSeq(recs, LAMBDA r : DictHas(r, field)) IN
    [i \in 1..Len(holders) |-> DictGet(holders[i], field)]

\* [record.get(field) for record in records]
FieldValues(recs, field) == [i \in 1..Len(recs) |-> DictGet(recs[i], field)]

IsNumber(v) == v.kind \in {"bool", "int", "float"}

\* the number in tenths
Tenths(v) == IF v.kind = "float" THEN v.n ELSE v.n * 10

\* a == b in Python: numbers compare by value, True == 1 == 1.0
PyEq(a, b) ==
    IF IsNumber(a) /\ IsNumber(b) THEN Tenths(a) = Tenths(b) ELSE a = b

\* hash(v) raises TypeError
Unhashable(v) == v.kind \in {"list", "dict"}

\* set(vals): one element for each class of equal values, the first met
SetOf(vals) ==
    {vals[i] : i \in {j \in 1..Len(vals) :
                        \A h \in 1..(j - 1) : ~PyEq(vals[h], vals[j])}}

\* the limit of the sample slice [:5]
SAMPLE_LIMIT == 5

\* the slice dropped: every element of the set is a sample
SampleChoices_unsliced(vals) == {SetOf(vals)}

\* list(set(non_null_values))[:5]: the first five of the set, whose iteration
\* order is the hash table's; kept as the collection of the entries
SampleChoices(vals) ==
    LET all == SetOf(vals) IN
    IF Cardinality(all) <= SAMPLE_LIMIT THEN {all}
    ELSE {sub \in SUBSET all : Cardinality(sub) = SAMPLE_LIMIT}

\* the default of infer_column_type's threshold parameter, in tenths
DEFAULT_THRESHOLD == 8

\* analyze_field_types(records)[field]
analyze_field_types(recs, field) ==
    infer_column_type(FieldValues(recs, field), DEFAULT_THRESHOLD)

\* the distinct values counted raw, as set(non_null_values) holds them
UniqueCount_raw(vals) == Cardinality(SetOf(vals))

\* len(set(str(v) for v in non_null_values)), line 230
UniqueCount(vals) == Cardinality({Str(vals[i]) : i \in 1..Len(vals)})

\* the FieldMetadata objects lines 219-232 can build for a field
FieldMetadataChoices(recs, field_name) ==
    LET vals == FieldValues(recs, field_name)
        non_null_values == SelectSeq(vals, LAMBDA v : v.kind # "none")
    IN  {[name |-> field_name,
          data_type |-> analyze_field_types(recs, field_name),
          nullable |-> Len(non_null_values) < Len(vals),
          null_count |-> Len(vals) - Len(non_null_values),
          unique_count |-> UniqueCount(non_null_values),
          sample_values |-> sample] :
         sample \in SampleChoices(non_null_values)}

\* set(non_null_values), line 223, raises TypeError for some field
DetectSchemaRaises(recs) ==
    \E f \in 1..Len(AllFields(recs)) :
        LET vals == FieldValues(recs, AllFields(recs)[f]) IN
        \E i \in 1..Len(vals) : Unhashable(vals[i])

\* the orders in which a set of n elements can be iterated
RECURSIVE Orders(_)
Orders(elems) ==
    IF elems = {} THEN {<<>>}
    ELSE UNION {{<<e>> \o rest : rest \in Orders(elems \ {e})} : e \in elems}

\* the orders in which "for field_name in all_fields" can visit the set
FieldOrders(recs) ==
    LET first_seen == AllFields(recs) IN
    Orders({first_seen[i] : i \in 1..Len(first_seen)})

\* the lists of FieldMetadata objects built when the fields are visited in
\* the given order
RECURSIVE MetadataLists(_, _)
MetadataLists(recs, order) ==
    IF order = <<>> THEN {<<>>}
    ELSE {<<m>> \o rest :
             m \in FieldMetadataChoices(recs, Head(order)),
             rest \in MetadataLists(recs, Tail(order))}

EmptySchema == [field_metadata |-> <<>>, hierarchy |-> EmptyDict]

\* the results detect_schema(records) can return on an instance whose
\* hierarchy map is hmap, when it does not raise; field_metadata lists the
\* FieldMetadata objects in the metadata map's key order
detect_schema(recs, hmap) ==
    IF recs = <<>> THEN {EmptySchema}
    ELSE {[field_metadata |-> metas, hierarchy |-> hmap] :
             metas \in UNION {MetadataLists(recs, order) :
                                 order \in FieldOrders(recs)}}

(***************************************************************************)
(* CSVParser (src/parsers/csv_parser.py). A DataFrame is a dict from the   *)
(* column names to the lists of the columns' cells, all of one length; a   *)
(* missing cell is the float NaN, as pandas.read_csv leaves it.            *)
(***************************************************************************)
PyNaN == PyVal("float", 0, <<"n", "a", "n">>, <<>>, <<>>)

\* pd.notna(v)
NotNa(v) == v # PyNaN

\* the number of rows of the DataFrame
RowCount(df) == IF df.keys = <<>> THEN 0 ELSE Len(df.items[1].items)

\* df.to_dict('records'): one dict per row, its keys the columns in order
ToDictRecords(df) ==
    [r \in 1..RowCount(df) |->
        PyDict(df.keys, [c \in 1..Len(df.keys) |-> df.items[c].items[r]])]

\* df[column].nunique(): the number of distinct cells that are not missing
NUnique(vals) == Cardinality(SetOf(SelectSeq(vals, NotNa)))

\* the FieldMetadata objects lines 71-86 can build for a column
ColumnMetadataChoices(column, vals) ==
    LET non_null_values ==
            SelectSeq(vals, LAMBDA v : NotNa(v) /\ v # PyStr(<<>>))
    IN  {[name |-> column,
          data_type |-> infer_column_type(vals, DEFAULT_THRESHOLD),
          nullable |-> Len(non_null_values) < Len(vals),
          null_count |-> Len(vals) - Len(non_null_values),
          unique_count |-> NUnique(vals),
          sample_values |-> sample] :
         sample \in SampleChoices(non_null_values)}

\* the lists of FieldMetadata objects built for the columns from the n-th on
RECURSIVE ColumnMetadataLists(_, _)
ColumnMetadataLists(df, n) ==
    IF n > Len(df.keys) THEN {<<>>}
    ELSE {<<m>> \o rest :
             m \in ColumnMetadataChoices(df.keys[n], df.items[n].items),
             rest \in ColumnMetadataLists(df, n + 1)}

\* the results CSVParser.detect_schema(df) can return
CSVParser_detect_schema(df) ==
    {[field_metadata |-> metas, hierarchy |-> EmptyDict] :
        metas \in ColumnMetadataLists(df, 1)}

(***************************************************************************)
(* DataValidator (src/core/data_validator.py). A file is what the calls    *)
(* on its path observe: status (os.path.exists, isfile, os.access), size   *)
(* (os.path.getsize), ext (os.path.splitext) and content, the outcome of   *)
(* reading it: json.load's value or exception, csv.reader's rows or        *)
(* exception.                                                              *)
(***************************************************************************)
FF_JSON == "json"
FF_CSV == "csv"
FF_UNKNOWN == "unknown"

\* MAX_FILE_SIZE = 100 * 1024 * 1024
MAX_FILE_SIZE == 104857600

E_NOT_FOUND == "File not found"
E_NOT_A_FILE == "Path is not a file"
E_NOT_READABLE == "File is not readable"
E_TOO_LARGE == "File size exceeds maximum allowed size"
E_UNSUPPORTED == "Unsupported file format. Only JSON and CSV are supported."
E_EMPTY == "File is empty"
E_JSON_NO_DATA == "JSON file contains no data"
E_JSON_NOT_CONTAINER == "JSON must be an object or array"
E_JSON_INVALID == "Invalid JSON format"
E_ENCODING == "File encoding error. Expected UTF-8."
E_CSV_NO_ROWS == "CSV file has no rows"
E_CSV_NO_HEADER == "CSV file has no valid header"
E_CSV_NO_DATA_ROWS == "CSV file has no data rows (only header)"
E_CSV_INVALID == "Invalid CSV format"
E_STRUCTURE == "Structure validation error"

\* a check's outcome: whether it passed, and the error list afterwards
Passed(errors) == [ok |-> TRUE, errors |-> errors]
Failed(errors, e) == [ok |-> FALSE, errors |-> Append(errors, e)]

_check_file_exists(f, errors) ==
    IF f.status = "missing" THEN Failed(errors, E_NOT_FOUND)
    ELSE IF f.status = "directory" THEN Failed(errors, E_NOT_A_FILE)
    ELSE IF f.status = "unreadable" THEN Failed(errors, E_NOT_READABLE)
    ELSE Passed(errors)

_check_file_size(f, errors) ==
    IF f.size > MAX_FILE_SIZE THEN Failed(errors, E_TOO_LARGE)
    ELSE Passed(errors)

\* the extension, lower-cased
_detect_format(f) ==
    IF Lower(f.ext) = <<".", "j", "s", "o", "n">> THEN FF_JSON
    ELSE IF Lower(f.ext) = <<".", "c", "s", "v">> THEN FF_CSV
    ELSE FF_UNKNOWN

_check_not_empty(f, errors) ==
    IF f.size = 0 THEN Failed(errors, E_EMPTY) ELSE Passed(errors)

\* not data: None, False, 0, 0.0, "", [] and {} are false
Falsy(v) ==
    \/ v.kind = "none"
    \/ v.kind \in {"bool", "int", "float"} /\ v.n = 0
    \/ v.kind = "str" /\ v.s = <<>>
    \/ v.kind \in {"list", "dict"} /\ v.items = <<>>

_validate_json_structure(f, errors) ==
    IF f.content.read = "JSONDecodeError" THEN Failed(errors, E_JSON_INVALID)
    ELSE IF f.content.read = "UnicodeDecodeError"
    THEN Failed(errors, E_ENCODING)
    ELSE IF f.content.read # "ok" THEN Failed(errors, E_STRUCTURE)
    ELSE LET json_data == f.content.json IN
         IF Falsy(json_data) THEN Failed(errors, E_JSON_NO_DATA)
         ELSE IF json_data.kind \notin {"dict", "list"}
         THEN Failed(errors, E_JSON_NOT_CONTAINER)
         ELSE Passed(errors)

_validate_csv_structure(f, errors) ==
    IF f.content.read = "csv.Error" THEN Failed(errors, E_CSV_INVALID)
    ELSE IF f.content.read = "UnicodeDecodeError"
    THEN Failed(errors, E_ENCODING)
    ELSE IF f.content.read # "ok" THEN Failed(errors, E_STRUCTURE)
    ELSE LET rows == f.content.rows IN
         IF Len(rows) < 1 THEN Failed(errors, E_CSV_NO_ROWS)
         ELSE IF \A c \in 1..Len(rows[1]) : Strip(rows[1][c]) = <<>>
         THEN Failed(errors, E_CSV_NO_HEADER)
         ELSE IF Len(rows) < 2 THEN Failed(errors, E_CSV_NO_DATA_ROWS)
         ELSE Passed(errors)

_validate_structure(f, format, errors) ==
    IF format = FF_JSON THEN _validate_json_structure(f, errors)
    ELSE IF format = FF_CSV THEN _validate_csv_structure(f, errors)
    ELSE Passed(errors)

\* the error list validate_file starts from with line 61 dropped
StartErrors_kept(errors) == errors

\* self.validation_errors = [], line 61
StartErrors(errors) == <<>>

\* validate_file(file_path) on an instance with the given file_format and
\* validation_errors: the returned tuple and the two attributes afterwards
validate_file(f, format, errors) ==
    LET start == StartErrors(errors)
        exists == _check_file_exists(f, start)
        size == _check_file_size(f, exists.errors)
        detected == _detect_format(f)
        unsupported == Append(size.errors, E_UNSUPPORTED)
        not_empty == _check_not_empty(f, size.errors)
        structure == _validate_structure(f, detected, not_empty.errors)
        Result(is_valid, ret_format, ret_errors, self_format, self_errors) ==
            [is_valid |-> is_valid, format |-> ret_format,
             errors |-> ret_errors, file_format |-> self_format,
             validation_errors |-> self_errors]
    IN  IF ~exists.ok
        THEN Result(FALSE, FF_UNKNOWN, exists.errors, format, exists.errors)
        ELSE IF ~size.ok
        THEN Result(FALSE, FF_UNKNOWN, size.errors, format, size.errors)
        ELSE IF detected = FF_UNKNOWN
        THEN Result(FALSE, FF_UNKNOWN, unsupported, detected, unsupported)
        ELSE IF ~not_empty.ok
        THEN Result(FALSE, detected, not_empty.errors, detected,
                    not_empty.errors)
        ELSE IF ~structure.ok
        THEN Result(FALSE, detected, structure.errors, detected,
                    structure.errors)
        ELSE Result(TRUE, detected, <<>>, detected, structure.errors)

\* a file nothing is read from
NoContent == [read |-> "none", json |-> PyNone, rows |-> <<>>]

\* the instance before its first call
NoReturn == [is_valid |-> FALSE, format |-> FF_UNKNOWN, errors |-> <<>>]

ValidatorIdle ==
    /\ file = [status |-> "missing", size |-> 0, ext |-> <<>>,
               content |-> NoContent]
    /\ file_format = FF_UNKNOWN
    /\ validation_errors = <<>>
    /\ returned = NoReturn
    /\ validations = 0

(***************************************************************************)
(* Inputs of the type detector                                             *)
(***************************************************************************)
MaxTextLen == 3
MaxColumnLen == 5

Alphabet == {" ", "0", "1", ".", "e", "-", "_", "/", "n", "a", "y", "N"}

ShortTexts == UNION {[1..n -> Alphabet] : n \in 0..MaxTextLen}

LongTexts == {
    <<"t", "r", "u", "e">>, <<"F", "a", "l", "s", "e">>, <<"y", "e", "s">>,
    <<"N", "o", "n", "e">>, <<"n", "u", "l", "l">>,
    <<"u", "n", "d", "e", "f", "i", "n", "e", "d">>,
    <<"h", "e", "l", "l", "o">>,
    <<" ", "1", "2", "3", " ">>, <<"-", "4", "5", "6">>, <<"1", "_", "0", "0", "0">>,
    <<"3", ".", "1", "4">>, <<"1", ".", "5", "e", "1", "0">>, <<"1", "E", "5">>,
    <<"-", "n", "a", "n">>, <<"I", "n", "f", "i", "n", "i", "t", "y">>,
    <<"2", "0", "2", "4", "-", "0", "1", "-", "1", "5", "T", "0", "9", ":",
      "3", "0", ":", "0", "0", "Z">>,
    <<"2", "0", "2", "4", "-", "0", "1", "-", "1", "5", "t", "0", "9", ":",
      "3", "0", ":", "0", "0">>,
    <<"2", "0", "2", "4", "-", "0", "1", "-", "1", "5", " ", "0", "9", ":",
      "3", "0", ":", "0", "0">>,
    <<"2", "0", "2", "4", "-", "0", "1", "-", "1", "5", " ", "0", "9", ":",
      "3", "0", ":", "6", "0">>,
    <<"2", "0", "2", "4", "-", "0", "1", "-", "1", "5", "T", "0", "9", ":",
      "3", "0", ":", "0", "0", ".", "1", "2", "3", "Z">>,
    <<"2", "0", "2", "4", "-", "1", "3", "-", "4", "5", "T", "9", "9", ":",
      "9", "9", ":", "9", "9">>,
    <<" ", "2", "0", "2", "4", "-", "0", "1", "-", "1", "5", "T", "0", "9",
      ":", "3", "0", ":", "0", "0", ".", "5", " ">>,
    <<" ", "2", "0", "2", "4", "-", "0", "1", "-", "1", "5">>,
    <<"2", "0", "2", "4", "-", "0", "1", "-", "1", "5", "T", "0", "9", ":",
      "3", "0", ":", "0", "0", ".", "Z">>,
    <<"2", "0", "2", "4", "-", "0", "1", "-", "1", "5">>,
    <<"2", "0", "2", "4", "-", "1", "-", "5">>,
    <<"2", "0", "2", "4", "-", "0", "2", "-", "2", "9">>,
    <<"2", "0", "2", "3", "-", "0", "2", "-", "2", "9">>,
    <<"0", "0", "0", "0", "-", "0", "1", "-", "0", "1">>,
    <<"1", "5", "/", "0", "1", "/", "2", "0", "2", "4">>,
    <<"0", "1", "/", "1", "5", "/", "2", "0", "2", "4">>,
    <<"0", "1", "/", "0", "2", "/", "2", "0", "2", "4">>,
    <<"3", "1", "/", "0", "4", "/", "2", "0", "2", "4">>,
    <<"1", "5", "-", "0", "1", "-", "2", "0", "2", "4">>,
    <<"2", "0", "2", "4", "/", "0", "1", "/", "1", "5">>,
    <<"2", "0", "2", "4", "/", "0", "1", "/", "1", "5", "5">>,
    <<"0", "9", ":", "3", "0">> }

Texts == ShortTexts \cup LongTexts

TypeInputs ==
    {PyNone, PyBool(TRUE), PyBool(FALSE), PyInt(0), PyInt(1), PyInt(-7),
     PyFloat(25), PyFloat(40), PyDateTime,
     PyList(<<>>), PyList(<<PyInt(1), PyStr(<<"a">>)>>),
     PyDict(<<>>, <<>>), PyDict(<< <<"a">> >>, <<PyNone>>)}
        \cup {PyStr(t) : t \in Texts}

ColumnValues == {PyInt(1), PyFloat(25), PyStr(<<"a">>), PyNone}

\* columns whose nulls are None, the empty text and a null token
MaxNullColumnLen == 3

NullColumnValues ==
    {PyInt(1), PyFloat(25), PyNone, PyStr(<<>>), PyStr(<<"n", "a">>)}

Columns ==
    UNION {[1..n -> ColumnValues] : n \in 0..MaxColumnLen}
        \cup UNION {[1..n -> NullColumnValues] : n \in 0..MaxNullColumnLen}

\* thresholds in tenths: 0.0, 0.5, the default 0.8, 1.0
Thresholds == {0, 5, 8, 10}

(***************************************************************************)
(* The type detector as a state machine: one call on the drawn arguments   *)
(***************************************************************************)
ParserIdle ==
    /\ data = PyNone
    /\ heap = <<>>
    /\ hierarchy_ref = 0
    /\ parsed = <<>>
    /\ records = <<>>
    /\ schema = EmptySchema
    /\ raised = "none"
    /\ calls = 0

\* a call is about to run on arguments drawn from the input sets
InitTypes ==
    /\ result = DT_UNKNOWN
    /\ ParserIdle
    /\ ValidatorIdle
    /\ \/ /\ pc = "call_infer_type"
          /\ value \in TypeInputs
          /\ values = <<>>
          /\ threshold = 8
       \/ /\ pc = "call_infer_column_type"
          /\ value = PyNone
          /\ values \in Columns
          /\ threshold \in Thresholds
       \/ /\ pc = "call_detect_date_format"
          /\ value \in {PyStr(t) : t \in Texts}
          /\ values = <<>>
          /\ threshold = 8

InferType ==
    /\ pc = "call_infer_type"
    /\ pc' = "ret_infer_type"
    /\ result' = infer_type(value)
    /\ UNCHANGED <<value, values, threshold>>
    /\ UNCHANGED parserVars
    /\ UNCHANGED validatorVars

InferColumnType ==
    /\ pc = "call_infer_column_type"
    /\ pc' = "ret_infer_column_type"
    /\ result' = infer_column_type(values, threshold)
    /\ UNCHANGED <<value, values, threshold>>
    /\ UNCHANGED parserVars
    /\ UNCHANGED validatorVars

\* result is the format string returned, or "None"
DetectDateFormat ==
    /\ pc = "call_detect_date_format"
    /\ pc' = "ret_detect_date_format"
    /\ result' = detect_date_format(value.s)
    /\ UNCHANGED <<value, values, threshold>>
    /\ UNCHANGED parserVars
    /\ UNCHANGED validatorVars

NextTypes == InferType \/ InferColumnType \/ DetectDateFormat

SpecTypes == InitTypes /\ [][NextTypes]_vars

(***************************************************************************)
(* Inputs of the JSON parser: decoded JSON values                          *)
(***************************************************************************)
MaxListLen == 2
MaxNest == 5
MaxKeys == 3
MaxCalls == 2

KeyA == <<"a">>
KeyA_A == <<"a", "_", "a">>
KeyEmpty == <<>>
KeyEntityType == <<"e", "n", "t", "i", "t", "y", "_", "t", "y", "p", "e">>

Keys == {KeyA, KeyA_A, KeyEmpty, KeyEntityType}

Scalars == {PyNone, PyBool(TRUE), PyInt(1), PyFloat(25), PyStr(<<"a">>)}

ListElements ==
    Scalars \cup {PyDict(<<KeyA>>, <<PyInt(1)>>), PyList(<<PyInt(1)>>)}

Lists ==
    {PyList(items) :
        items \in UNION {[1..n -> ListElements] : n \in 0..MaxListLen}}

\* v below d levels of single-key objects
RECURSIVE Nest(_, _)
Nest(v, d) == IF d = 0 THEN v ELSE PyDict(<<KeyA>>, <<Nest(v, d - 1)>>)

Chains == {Nest(v, d) : v \in Scalars \cup Lists, d \in 1..MaxNest}

SmallValues ==
    {PyInt(1),
     PyDict(<<KeyA>>, <<PyInt(2)>>),
     PyList(<<PyDict(<<KeyEntityType>>, <<PyInt(2)>>), PyInt(1)>>)}

KeyLists ==
    {ks \in UNION {[1..n -> Keys] : n \in 0..MaxKeys} :
        \A i, j \in 1..Len(ks) : i # j => ks[i] # ks[j]}

KeyedObjects ==
    UNION {{PyDict(ks, vs) : vs \in [1..Len(ks) -> SmallValues]} :
              ks \in KeyLists}

ArrayElements ==
    Scalars \cup {PyStr(<<"1">>),
                  PyList(<<PyInt(1)>>),
                  PyDict(<<>>, <<>>),
                  PyDict(<<KeyA>>, <<PyInt(1)>>),
                  PyDict(<<KeyA_A, KeyA>>,
                         <<PyInt(1), PyDict(<<KeyA>>, <<PyInt(2)>>)>>)}

Arrays ==
    {PyList(items) :
        items \in UNION {[1..n -> ArrayElements] : n \in 0..MaxListLen}}
        \cup {PyList(<<c>>) : c \in Chains}

Collections == {PyDict(<<KeyA>>, <<PyList(<<c>>)>>) : c \in Chains}

\* the inputs of the sequences of calls on one instance
FollowUpDocs ==
    {PyInt(1),
     PyList(<<>>),
     PyList(<<PyInt(1)>>),
     PyDict(<<KeyA>>, <<PyInt(1)>>),
     PyDict(<<KeyA>>, <<PyList(<<>>)>>),
     PyDict(<<KeyA_A, KeyA>>, <<PyList(<<PyInt(1)>>), PyInt(1)>>)}

\* an array with more distinct values than the sample slice keeps
SampledArray ==
    PyList([i \in 1..(SAMPLE_LIMIT + 1) |-> PyInt(i)])

Docs ==
    Scalars \cup Chains \cup KeyedObjects \cup Arrays \cup Collections
        \cup FollowUpDocs \cup {SampledArray}

\* the DataFrames read_csv can give: columns of integers, of floats with
\* missing cells, and of texts with missing cells
MaxRows == 2

IntCells == {PyInt(1), PyInt(2)}
FloatCells == {PyFloat(10), PyFloat(25), PyNaN}
TextCells == {PyStr(<<"1">>), PyStr(<<"a">>), PyNaN}

ColumnsOfRows(n) ==
    {PyList(cells) :
        cells \in [1..n -> IntCells] \cup [1..n -> FloatCells]
                      \cup [1..n -> TextCells]}

Frames ==
    UNION {{PyDict(<<KeyA>>, <<c>>) : c \in ColumnsOfRows(n)}
              \cup {PyDict(<<KeyA_A, KeyA>>, <<c1, c2>>) :
                       c1 \in ColumnsOfRows(n), c2 \in ColumnsOfRows(n)} :
           n \in 0..MaxRows}

(***************************************************************************)
(* One JSONParser instance: __init__, then _extract_records and            *)
(* detect_schema on each input                                             *)
(***************************************************************************)
TypesIdle ==
    /\ value = PyNone
    /\ values = <<>>
    /\ threshold = DEFAULT_THRESHOLD
    /\ result = DT_UNKNOWN

\* a JSONParser is about to be given a decoded document, or a CSVParser
\* the DataFrame read from its file
Init ==
    /\ \/ /\ pc = "call_extract_records"
          /\ data \in Docs
          /\ heap = <<EmptyDict>>
          /\ hierarchy_ref = 1
       \/ /\ pc = "call_csv_parse"
          /\ data \in Frames
          /\ heap = <<>>
          /\ hierarchy_ref = 0
    /\ parsed = <<>>
    /\ records = <<>>
    /\ schema = EmptySchema
    /\ raised = "none"
    /\ calls = 1
    /\ TypesIdle
    /\ ValidatorIdle

ExtractRecords ==
    /\ pc = "call_extract_records"
    /\ LET out == _extract_records(data, heap, hierarchy_ref) IN
           /\ records' = out.all_records
           /\ heap' = out.heap
           /\ hierarchy_ref' = out.ref
    /\ pc' = "ret_extract_records"
    /\ UNCHANGED <<data, parsed, schema, raised, calls>>
    /\ UNCHANGED typeVars
    /\ UNCHANGED validatorVars

DetectSchema ==
    /\ pc = "ret_extract_records"
    /\ IF DetectSchemaRaises(records)
       THEN /\ raised' = "TypeError"
            /\ UNCHANGED schema
       ELSE /\ schema' \in detect_schema(records, hierarchy_map)
            /\ UNCHANGED raised
    /\ pc' = "ret_detect_schema"
    /\ UNCHANGED <<data, heap, hierarchy_ref, parsed, records, calls>>
    /\ UNCHANGED typeVars
    /\ UNCHANGED validatorVars

\* parse, lines 48-56, once detect_schema has returned: the ParsedData
\* object is given the records, the metadata map and schema['hierarchy'],
\* which is the dict self.hierarchy_map itself (line 237) or, for no
\* records, a new empty dict (line 206)
ReturnParsedData ==
    /\ pc = "ret_detect_schema"
    /\ raised = "none"
    /\ LET fresh == records = <<>>
           ref == IF fresh THEN Len(heap) + 1 ELSE hierarchy_ref
       IN  /\ heap' = IF fresh THEN Append(heap, EmptyDict) ELSE heap
           /\ parsed' = Append(parsed,
                               [records |-> records,
                                field_metadata |-> schema.field_metadata,
                                hierarchy |-> ref])
    /\ pc' = "ret_parse"
    /\ UNCHANGED <<data, hierarchy_ref, records, schema, raised, calls>>
    /\ UNCHANGED typeVars
    /\ UNCHANGED validatorVars

\* CSVParser.parse, lines 42-54, on the DataFrame read: the ParsedData
\* object is given the records and the metadata map, and keeps the empty
\* hierarchy dict its constructor made (parsed_data.py, line 57)
CsvParse ==
    /\ pc = "call_csv_parse"
    /\ records' = ToDictRecords(data)
    /\ schema' \in CSVParser_detect_schema(data)
    /\ heap' = Append(heap, EmptyDict)
    /\ parsed' = Append(parsed,
                        [records |-> records',
                         field_metadata |-> schema'.field_metadata,
                         hierarchy |-> Len(heap) + 1])
    /\ pc' = "ret_csv_parse"
    /\ UNCHANGED <<data, hierarchy_ref, raised, calls>>
    /\ UNCHANGED typeVars
    /\ UNCHANGED validatorVars

\* the instance is given its next input
NextCall ==
    /\ pc \in {"ret_extract_records", "ret_detect_schema", "ret_parse"}
    /\ calls < MaxCalls
    /\ data \in FollowUpDocs
    /\ data' \in FollowUpDocs
    /\ pc' = "call_extract_records"
    /\ records' = <<>>
    /\ schema' = EmptySchema
    /\ raised' = "none"
    /\ calls' = calls + 1
    /\ UNCHANGED <<heap, hierarchy_ref, parsed>>
    /\ UNCHANGED typeVars
    /\ UNCHANGED validatorVars

Next ==
    ExtractRecords \/ DetectSchema \/ ReturnParsedData \/ NextCall \/ CsvParse

Spec == Init /\ [][Next]_vars

(***************************************************************************)
(* Inputs of the validator: the files at the paths it is given             *)
(***************************************************************************)
MaxValidations == 2

Extensions ==
    {<<".", "j", "s", "o", "n">>, <<".", "J", "S", "O", "N">>,
     <<".", "c", "s", "v">>, <<".", "t", "x", "t">>, <<>>}

JsonContents ==
    {[read |-> r, json |-> PyNone, rows |-> <<>>] :
        r \in {"JSONDecodeError", "UnicodeDecodeError", "RecursionError"}}
    \cup {[read |-> "ok", json |-> v, rows |-> <<>>] :
             v \in {PyNone, PyBool(FALSE), PyInt(0), PyInt(1), PyStr(<<>>),
                    PyStr(<<"a">>), PyList(<<>>), PyDict(<<>>, <<>>),
                    PyList(<<PyInt(0)>>), PyDict(<<KeyA>>, <<PyNone>>)}}

CsvContents ==
    {[read |-> r, json |-> PyNone, rows |-> <<>>] :
        r \in {"csv.Error", "UnicodeDecodeError"}}
    \cup {[read |-> "ok", json |-> PyNone, rows |-> rows] :
             rows \in {<< <<>> >>, << <<<<" ">>, <<>>>> >>, << <<KeyA>> >>,
                       << <<KeyA>>, <<>> >>,
                       << <<<<>>, KeyA>>, <<<<"1">>, <<"1">>>> >>}}

\* the content a file of the given extension and size can have
ContentsOf(ext, size) ==
    IF size = 0 \/ size > MAX_FILE_SIZE THEN {NoContent}
    ELSE IF Lower(ext) = <<".", "j", "s", "o", "n">> THEN JsonContents
    ELSE IF Lower(ext) = <<".", "c", "s", "v">> THEN CsvContents
    ELSE {NoContent}

Files ==
    {[status |-> st, size |-> 0, ext |-> e, content |-> NoContent] :
        st \in {"missing", "directory"}, e \in Extensions}
    \cup UNION {UNION {{[status |-> st, size |-> sz, ext |-> e, content |-> c] :
                           st \in {"file", "unreadable"},
                           c \in ContentsOf(e, sz)} :
                       sz \in {0, 5, MAX_FILE_SIZE, MAX_FILE_SIZE + 1}} :
                e \in Extensions}

(***************************************************************************)
(* One DataValidator instance: __init__, then validate_file on each path   *)
(***************************************************************************)
InitValidator ==
    /\ pc = "call_validate_file"
    /\ file \in Files
    /\ file_format = FF_UNKNOWN
    /\ validation_errors = <<>>
    /\ returned = NoReturn
    /\ validations = 1
    /\ TypesIdle
    /\ ParserIdle

ValidateFile ==
    /\ pc = "call_validate_file"
    /\ LET out == validate_file(file, file_format, validation_errors) IN
           /\ returned' = [is_valid |-> out.is_valid, format |-> out.format,
                           errors |-> out.errors]
           /\ file_format' = out.file_format
           /\ validation_errors' = out.validation_errors
    /\ pc' = "ret_validate_file"
    /\ UNCHANGED <<file, validations>>
    /\ UNCHANGED typeVars
    /\ UNCHANGED parserVars

\* the instance is given its next path
NextValidation ==
    /\ pc = "ret_validate_file"
    /\ validations < MaxValidations
    /\ file' \in Files
    /\ validations' = validations + 1
    /\ pc' = "call_validate_file"
    /\ UNCHANGED <<file_format, validation_errors, returned>>
    /\ UNCHANGED typeVars
    /\ UNCHANGED parserVars

NextValidator == ValidateFile \/ NextValidation

SpecValidator == InitValidator /\ [][NextValidator]_vars

(***************************************************************************)
(* Properties of the type detector, checked under SpecTypes                *)
(***************************************************************************)
IsBlank(t) == \A i \in 1..Len(t) : IsSpace(t[i])

\* the tag of the first rule of the classification order that matches
FirstMatchingRule(v) ==
    IF v.kind = "none" \/ (v.kind = "str" /\ IsBlank(v.s)) THEN DT_NULL
    ELSE IF v.kind = "bool" THEN DT_BOOLEAN
    ELSE IF v.kind = "int" THEN DT_INTEGER
    ELSE IF v.kind = "float" THEN DT_FLOAT
    ELSE IF v.kind = "datetime" THEN DT_DATETIME
    ELSE LET t == Strip(Str(v)) IN
         IF t = <<>> THEN DT_NULL
         ELSE IF Upper(t) \in NullTokens THEN DT_NULL
         ELSE IF Upper(t) \in BoolWords THEN DT_BOOLEAN
         ELSE IF IntParses(t) /\ ~Contains(t, ".")
                 /\ ~Contains(t, "e") /\ ~Contains(t, "E")
              THEN DT_INTEGER
         ELSE IF FloatParses(t) THEN DT_FLOAT
         ELSE IF detect_date_format(t) # "None" \/ IsoPatternMatches(t)
              THEN DT_DATETIME
         ELSE DT_STRING

CountType(vals, t) ==
    Cardinality({i \in 1..Len(vals) : infer_type(vals[i]) = t})

NonNullCount(vals) ==
    Cardinality({i \in 1..Len(vals) : infer_type(vals[i]) # DT_NULL})

HighestCount(vals) ==
    CHOOSE c \in 0..Len(vals) :
        /\ \E t \in DataType \ {DT_NULL} : CountType(vals, t) = c
        /\ \A t \in DataType \ {DT_NULL} : CountType(vals, t) <= c

AgreementReached(vals, thr) ==
    HighestCount(vals) * 10 >= thr * NonNullCount(vals)

\* C2: for a column with a non-null value, infer_column_type returns a most
\* frequent non-null type when its share of the non-null values reaches the
\* threshold; otherwise Float when Integer and Float both occur, whatever
\* else occurs; otherwise String.
C2_AgreementThenWideningThenString ==
    (pc = "ret_infer_column_type" /\ NonNullCount(values) > 0) =>
        IF AgreementReached(values, threshold)
        THEN /\ result # DT_NULL
             /\ CountType(values, result) = HighestCount(values)
        ELSE IF /\ CountType(values, DT_INTEGER) > 0
                /\ CountType(values, DT_FLOAT) > 0
        THEN result = DT_FLOAT
        ELSE result = DT_STRING

\* agreement fails, Integer, Float and String all occur: the column is Float
C2_Witness ==
    /\ pc = "ret_infer_column_type"
    /\ threshold = 8
    /\ values = <<PyInt(1), PyFloat(25), PyStr(<<"a">>)>>
    /\ result = DT_FLOAT

\* four integers and one float reach the threshold 0.8: the column is Integer
C2_WitnessAgreement ==
    /\ pc = "ret_infer_column_type"
    /\ threshold = 8
    /\ values = <<PyInt(1), PyInt(1), PyFloat(25), PyInt(1), PyInt(1)>>
    /\ result = DT_INTEGER

\* C10: infer_column_type returns Unknown exactly for the empty list and
\* Null exactly for a non-empty list whose values all classify as Null.
C10_EmptyUnknownAllNullNull ==
    pc = "ret_infer_column_type" =>
        /\ result = DT_UNKNOWN <=> values = <<>>
        /\ result = DT_NULL <=> (values # <<>> /\ NonNullCount(values) = 0)

C10_Witness ==
    /\ pc = "ret_infer_column_type"
    /\ values = <<PyNone, PyNone>>
    /\ result = DT_NULL

NonNull(vals) == SelectSeq(vals, LAMBDA v : infer_type(v) # DT_NULL)

\* vals with the value v inserted after its first i values
InsertAt(vals, i, v) == SubSeq(vals, 1, i) \o <<v>> \o SubSeq(vals, i + 1, Len(vals))

\* C11: for a column with a non-null value, infer_column_type returns what
\* it returns on the column with the null-classified values removed, and
\* what it returns on the column with one more null inserted anywhere.
C11_NullsNeverChangeTheType ==
    (pc = "ret_infer_column_type" /\ NonNullCount(values) > 0) =>
        /\ result = infer_column_type(NonNull(values), threshold)
        /\ \A i \in 0..Len(values) :
               infer_column_type(InsertAt(values, i, PyNone), threshold)
                   = result

\* one integer among an explicit null, an empty text and a null token
C11_Witness ==
    /\ pc = "ret_infer_column_type"
    /\ threshold = 8
    /\ values = <<PyStr(<<"n", "a">>), PyInt(1), PyStr(<<>>)>>
    /\ result = DT_INTEGER

\* the trimmed text parses under one of the explicit formats
ParsesExplicitly(t) ==
    \E i \in 1..Len(DATETIME_FORMATS) : Strptime(t, DATETIME_FORMATS[i].fmt)

\* infer_type classifies the text as DateTime, and through the ISO fallback
\* pattern alone
FallbackOnly(v) ==
    /\ infer_type(v) = DT_DATETIME
    /\ ~ParsesExplicitly(Strip(v.s))

\* C16: a text that infer_type classifies as DateTime through the ISO
\* fallback pattern alone makes detect_date_format return none.
C16_FallbackOnlyHasNoFormat ==
    (pc = "ret_detect_date_format" /\ FallbackOnly(value)) => result = "None"

\* a timestamp with fractional seconds
C16_Witness ==
    /\ pc = "ret_detect_date_format"
    /\ value = PyStr(<<"2", "0", "2", "4", "-", "0", "1", "-", "1", "5", "T",
                       "0", "9", ":", "3", "0", ":", "0", "0", ".", "1", "2",
                       "3", "Z">>)
    /\ FallbackOnly(value)
    /\ result = "None"

\* the format identifiers in the order ISO with Z, ISO without Z,
\* space-separated date-time, date only, day/month/year, month/day/year,
\* day-month-year, year/month/day
FormatOrder ==
    <<"%Y-%m-%dT%H:%M:%SZ", "%Y-%m-%dT%H:%M:%S", "%Y-%m-%d %H:%M:%S",
      "%Y-%m-%d", "%d/%m/%Y", "%m/%d/%Y", "%d-%m-%Y", "%Y/%m/%d">>

\* the text parses under the format with the identifier id
ParsesUnder(t, id) ==
    \E i \in 1..Len(DATETIME_FORMATS) :
        DATETIME_FORMATS[i].id = id /\ Strptime(t, DATETIME_FORMATS[i].fmt)

\* C17: detect_date_format returns the identifier of the first format of
\* the fixed order under which the text parses, and none when it parses
\* under no format; a text valid both as day/month/year and as
\* month/day/year is reported as day/month/year.
C17_FirstFormatInFixedOrder ==
    pc = "ret_detect_date_format" =>
        /\ result = "None" <=>
               \A k \in 1..Len(FormatOrder) : ~ParsesUnder(value.s, FormatOrder[k])
        /\ \A k \in 1..Len(FormatOrder) :
               result = FormatOrder[k] <=>
                   /\ ParsesUnder(value.s, FormatOrder[k])
                   /\ \A j \in 1..(k - 1) : ~ParsesUnder(value.s, FormatOrder[j])
        /\ (ParsesUnder(value.s, "%d/%m/%Y") /\ ParsesUnder(value.s, "%m/%d/%Y"))
               => result = "%d/%m/%Y"

\* 01/02/2024 is valid under both orders of day and month
C17_Witness ==
    /\ pc = "ret_detect_date_format"
    /\ value = PyStr(<<"0", "1", "/", "0", "2", "/", "2", "0", "2", "4">>)
    /\ ParsesUnder(value.s, "%m/%d/%Y")
    /\ result = "%d/%m/%Y"

\* where the type first occurs in the column
FirstOccurrence(vals, t) ==
    CHOOSE i \in 1..Len(vals) :
        /\ infer_type(vals[i]) = t
        /\ \A h \in 1..(i - 1) : infer_type(vals[h]) # t

\* the non-null types holding the highest count
TopTypes(vals) ==
    {t \in DataType \ {DT_NULL} :
        CountType(vals, t) > 0 /\ CountType(vals, t) = HighestCount(vals)}

\* C21: among the non-null types sharing the highest count, the one taken
\* as most frequent is the one that occurs first in the value list: when
\* the agreement is reached the result is that type; [1, "a"] is Integer
\* and ["a", 1] is String at threshold 0.5.
C21_TieGoesToFirstSeenType ==
    (pc = "ret_infer_column_type" /\ NonNullCount(values) > 0) =>
        /\ AgreementReached(values, threshold) =>
               /\ result \in TopTypes(values)
               /\ \A t \in TopTypes(values) :
                      FirstOccurrence(values, result)
                          <= FirstOccurrence(values, t)
        /\ (threshold = 5 /\ values = <<PyInt(1), PyStr(<<"a">>)>>) =>
               result = DT_INTEGER
        /\ (threshold = 5 /\ values = <<PyStr(<<"a">>), PyInt(1)>>) =>
               result = DT_STRING

\* the text comes first in ["a", 1]
C21_Witness ==
    /\ pc = "ret_infer_column_type"
    /\ threshold = 5
    /\ values = <<PyStr(<<"a">>), PyInt(1)>>
    /\ result = DT_STRING

\* the column with its values at i and i + 1 exchanged
SwapAt(vals, i) ==
    [k \in 1..Len(vals) |->
        IF k = i THEN vals[i + 1] ELSE IF k = i + 1 THEN vals[i] ELSE vals[k]]

\* C26: at a threshold above 0.5, infer_column_type returns the same type
\* for the column with any two neighbouring values exchanged, hence for
\* every ordering of the column.
C26_OrderIrrelevantAboveHalf ==
    (pc = "ret_infer_column_type" /\ threshold > 5) =>
        \A i \in 1..(Len(values) - 1) :
            infer_column_type(SwapAt(values, i), threshold) = result

\* ["a", 1, 2.5] and [1, "a", 2.5] both widen to Float at 0.8
C26_Witness ==
    /\ pc = "ret_infer_column_type"
    /\ threshold = 8
    /\ values = <<PyStr(<<"a">>), PyInt(1), PyFloat(25)>>
    /\ result = DT_FLOAT
    /\ infer_column_type(<<PyInt(1), PyStr(<<"a">>), PyFloat(25)>>, 8) = result

(***************************************************************************)
(* Properties of the JSON flattener, checked under Spec                    *)
(***************************************************************************)
Extracted == pc \in {"ret_extract_records", "ret_detect_schema", "ret_parse"}

ScalarKinds == {"none", "bool", "int", "float", "str"}

ListKeys(d) == {i \in 1..Len(d.keys) : d.items[i].kind = "list"}

\* at least one list-valued key, and at least half of the keys list-valued
IsCollectionShape(d) ==
    /\ d.kind = "dict"
    /\ Cardinality(ListKeys(d)) >= 1
    /\ 2 * Cardinality(ListKeys(d)) >= Len(d.keys)

\* flatten(obj) with no prefix, at depth 0, with the default max_depth
Flat(obj) == _flatten_object(obj, <<>>, DEFAULT_MAX_DEPTH, 0)

\* C3 (as stated): _extract_records followed by detect_schema never raises.
C3_ExtractThenDetectNeverRaises == raised = "none"

\* C4 (as stated): every value of every extracted record is a scalar.
C4_RecordsHoldOnlyScalars ==
    Extracted =>
        \A i \in 1..Len(records) : \A j \in 1..Len(records[i].items) :
            records[i].items[j].kind \in ScalarKinds

\* the (key, item) pairs of a collection dict: key order, then item order
RECURSIVE CollectionItems(_, _)
CollectionItems(d, n) ==
    IF n = 0 THEN <<>>
    ELSE CollectionItems(d, n - 1)
             \o (IF d.items[n].kind = "list"
                 THEN [i \in 1..Len(d.items[n].items) |->
                          [key |-> d.keys[n], item |-> d.items[n].items[i]]]
                 ELSE <<>>)

PrefixKeys(d, prefix) ==
    PyDict([i \in 1..Len(d.keys) |-> prefix \o d.keys[i]], d.items)

\* the item's flattened fields, every key prefixed by "k_"
ItemFields(k, item) == PrefixKeys(Flat(item), k \o <<"_">>)

HierarchyIsListLengths(d) ==
    /\ \A i \in ListKeys(d) :
           DictGet(hierarchy_map, d.keys[i]) = PyInt(Len(d.items[i].items))
    /\ \A h \in 1..Len(hierarchy_map.keys) :
           \E i \in ListKeys(d) : d.keys[i] = hierarchy_map.keys[h]
    /\ Len(hierarchy_map.keys) = Cardinality(ListKeys(d))

NonObjectRecord(k, item) ==
    PyDict(<<ENTITY_TYPE, VALUE>>, <<PyStr(k), item>>)

\* C5: for a collection dict, hierarchy[k] is the length of the list of k,
\* for the list-valued keys only; the records follow key order, then item
\* order; an object item gives a record whose fields are the item's
\* flattened fields under their keys prefixed by "k_", plus _entity_type;
\* another item gives {_entity_type: k, value: item}; _entity_type is always
\* k, also when a prefixed item field is itself named "_entity_type".
C5_RecordIsPrefixedFieldsThenStamp ==
    (Extracted /\ IsCollectionShape(data)) =>
        LET src == CollectionItems(data, Len(data.keys)) IN
        /\ HierarchyIsListLengths(data)
        /\ Len(records) = Len(src)
        /\ \A i \in 1..Len(src) :
               /\ DictGet(records[i], ENTITY_TYPE) = PyStr(src[i].key)
               /\ IF src[i].item.kind = "dict"
                  THEN LET fields == ItemFields(src[i].key, src[i].item) IN
                       /\ \A f \in 1..Len(fields.keys) :
                              /\ DictHas(records[i], fields.keys[f])
                              /\ fields.keys[f] # ENTITY_TYPE =>
                                     DictGet(records[i], fields.keys[f])
                                         = fields.items[f]
                       /\ \A f \in 1..Len(records[i].keys) :
                              \/ records[i].keys[f] = ENTITY_TYPE
                              \/ DictHas(fields, records[i].keys[f])
                  ELSE records[i] = NonObjectRecord(src[i].key, src[i].item)

\* the collection "" holds an object with the key "entity_type"
C5_Witness ==
    /\ pc = "ret_extract_records"
    /\ data = PyDict(<<KeyEmpty, KeyA>>,
                     <<PyList(<<PyDict(<<KeyEntityType>>, <<PyInt(2)>>),
                                PyInt(1)>>),
                       PyInt(1)>>)
    /\ Len(records) = 2
    /\ records[1] = PyDict(<<ENTITY_TYPE>>, <<PyStr(KeyEmpty)>>)
    /\ records[2] = NonObjectRecord(KeyEmpty, PyInt(1))
    /\ hierarchy_map = PyDict(<<KeyEmpty>>, <<PyInt(2)>>)

\* the key paths of an object that lead through objects only, up to n keys
RECURSIVE Paths(_, _)
Paths(v, n) ==
    IF v.kind # "dict" \/ n = 0 THEN {<<>>}
    ELSE {<<>>} \cup
         UNION {{<<v.keys[i]>> \o p : p \in Paths(v.items[i], n - 1)} :
                   i \in 1..Len(v.keys)}

RECURSIVE ValueAt(_, _)
ValueAt(v, p) == IF p = <<>> THEN v ELSE ValueAt(DictGet(v, Head(p)), Tail(p))

\* the keys of the path joined with "_"
JoinedKey(p) == Join(<<"_">>, p)

\* the paths of a record root that the flattener can reach
ReachedPaths(obj) == Paths(obj, DEFAULT_MAX_DEPTH + 1) \ {<<>>}

\* no other reached path joins to the same key
NoCollision(obj, p) ==
    \A q \in ReachedPaths(obj) : JoinedKey(q) = JoinedKey(p) => q = p

\* C6: an object is handled as a collection dict exactly when it has the
\* collection shape; any other object gives exactly one record, the object
\* flattened with no prefix at depth 0, and an empty hierarchy.
C6_CollectionDictExactlyWhenHalfLists ==
    (Extracted /\ data.kind = "dict") =>
        IF IsCollectionShape(data)
        THEN /\ Len(hierarchy_map.keys) > 0
             /\ Len(records) = Len(CollectionItems(data, Len(data.keys)))
             /\ \A i \in 1..Len(records) : DictHas(records[i], ENTITY_TYPE)
        ELSE /\ records = <<Flat(data)>>
             /\ hierarchy_map = EmptyDict
             /\ \A i \in 1..Len(data.keys) :
                    (/\ data.items[i].kind \in ScalarKinds
                     /\ NoCollision(data, <<data.keys[i]>>)) =>
                        DictGet(records[1], data.keys[i]) = data.items[i]

\* one list among three keys: a single record, no hierarchy
C6_Witness ==
    /\ pc = "ret_extract_records"
    /\ data.kind = "dict"
    /\ Len(data.keys) = 3
    /\ Cardinality(ListKeys(data)) = 1
    /\ Len(records) = 1
    /\ hierarchy_map = EmptyDict
    /\ ~DictHas(records[1], ENTITY_TYPE)

\* the record roots handled with no prefix, with their records
PlainRoots ==
    IF ~Extracted THEN {}
    ELSE IF data.kind = "dict" /\ ~IsCollectionShape(data)
    THEN {[obj |-> data, rec |-> records[1]]}
    ELSE IF data.kind = "list"
    THEN {[obj |-> data.items[i], rec |-> records[i]] :
             i \in {j \in 1..Len(data.items) : data.items[j].kind = "dict"}}
    ELSE {}

\* C7: an object value met below at most max_depth levels is replaced by
\* its leaves under the "_"-joined keys; an object value met at depth
\* max_depth is stored under its joined key as the raw mapping.
C7_RecurseExactlyBelowMaxDepth ==
    \A root \in PlainRoots : \A p \in ReachedPaths(root.obj) :
        NoCollision(root.obj, p) =>
            LET v == ValueAt(root.obj, p) IN
            IF v.kind = "dict"
            THEN IF Len(p) <= DEFAULT_MAX_DEPTH
                 THEN ~DictHas(root.rec, JoinedKey(p))
                 ELSE /\ DictHas(root.rec, JoinedKey(p))
                      /\ DictGet(root.rec, JoinedKey(p)) = v
            ELSE /\ DictHas(root.rec, JoinedKey(p))
                 /\ v.kind # "list" => DictGet(root.rec, JoinedKey(p)) = v

\* {"a": {"a": {"a": {"a": {"a": 1}}}}}: the fourth level keeps {"a": 1}
C7_Witness ==
    /\ pc = "ret_extract_records"
    /\ data = Nest(PyInt(1), 5)
    /\ records = <<PyDict(<< <<"a", "_", "a", "_", "a", "_", "a">> >>,
                          <<PyDict(<<KeyA>>, <<PyInt(1)>>)>>)>>

\* the list values the flattener reaches in a record root, with the value
\* stored for each
StoredLists ==
    UNION {{[list |-> ValueAt(root.obj, p),
             stored |-> DictGet(root.rec, JoinedKey(p))] :
               p \in {q \in ReachedPaths(root.obj) :
                        /\ ValueAt(root.obj, q).kind = "list"
                        /\ NoCollision(root.obj, q)}} :
           root \in PlainRoots}

JoinedText(list) ==
    PyStr(Join(<<",", " ">>, [i \in 1..Len(list.items) |-> Str(list.items[i])]))

AllKinds(list, kinds) == \A i \in 1..Len(list.items) : list.items[i].kind \in kinds

\* C8 (as stated): a list whose elements are all scalars, null included, is
\* stored as the stringified elements joined with ", ".
C8_ScalarListJoinedNullIncluded ==
    \A l \in StoredLists :
        AllKinds(l.list, ScalarKinds) => l.stored = JoinedText(l.list)

\* C8 (amended): a list whose elements are all numbers, booleans or texts
\* is stored as the stringified elements joined with ", ", the empty list
\* as the empty text; a list of scalars with a null among them is stored as
\* its JSON text.
C8_ScalarListJoinedUnlessNull ==
    \A l \in StoredLists :
        /\ AllKinds(l.list, ScalarKinds \ {"none"}) =>
               l.stored = JoinedText(l.list)
        /\ l.list.items = <<>> => l.stored = PyStr(<<>>)
        /\ (AllKinds(l.list, ScalarKinds) /\ ~AllKinds(l.list, ScalarKinds \ {"none"})) =>
               l.stored = PyStr(JsonDumps(l.list))

\* {"a": {"a": [1, null]}} is stored as the text [1, null]
C8_Witness ==
    /\ pc = "ret_extract_records"
    /\ data = Nest(PyList(<<PyInt(1), PyNone>>), 2)
    /\ records = <<PyDict(<<KeyA_A>>,
                          <<PyStr(<<"[", "1", ",", " ", "n", "u", "l", "l", "]">>)>>)>>

\* C9: a top-level array of n elements gives n records in the array's
\* order, the flattened element for an object and {value: element}
\* otherwise, and an empty hierarchy.
C9_ArrayGivesOneRecordPerElement ==
    (Extracted /\ data.kind = "list") =>
        /\ Len(records) = Len(data.items)
        /\ hierarchy_map = EmptyDict
        /\ \A i \in 1..Len(data.items) :
               LET e == data.items[i] IN
               IF e.kind = "dict"
               THEN /\ records[i] = Flat(e)
                    /\ AllKinds(e, ScalarKinds) => records[i] = e
               ELSE records[i] = PyDict(<<VALUE>>, <<e>>)

\* [{"a": 1}, [1]] gives {"a": 1} and {"value": [1]}
C9_Witness ==
    /\ pc = "ret_extract_records"
    /\ data = PyList(<<PyDict(<<KeyA>>, <<PyInt(1)>>), PyList(<<PyInt(1)>>)>>)
    /\ records = <<PyDict(<<KeyA>>, <<PyInt(1)>>),
                   PyDict(<<VALUE>>, <<PyList(<<PyInt(1)>>)>>)>>
    /\ hierarchy_map = EmptyDict

(***************************************************************************)
(* Properties of the schema builder, checked under Spec                    *)
(***************************************************************************)
SchemaBuilt == pc \in {"ret_detect_schema", "ret_parse"} /\ raised = "none"

\* the keys of the metadata map, in the map's order
MetadataKeys == [i \in 1..Len(schema.field_metadata) |->
                    schema.field_metadata[i].name]

\* C12 (as stated): the keys of the field-metadata map are in first-seen
\* order over the records and their keys.
C12_MetadataKeysInFirstSeenOrder ==
    SchemaBuilt => MetadataKeys = AllFields(records)

\* the keys occurring in at least one record
RecordKeys ==
    UNION {{records[i].keys[j] : j \in 1..Len(records[i].keys)} :
              i \in 1..Len(records)}

\* C13: the field names of the metadata map detect_schema returns are
\* exactly the keys occurring in at least one record, each once; no records
\* give an empty map.
C13_MetadataKeysAreTheRecordKeys ==
    SchemaBuilt =>
        /\ {MetadataKeys[i] : i \in 1..Len(MetadataKeys)} = RecordKeys
        /\ Len(MetadataKeys) = Cardinality(RecordKeys)
        /\ records = <<>> => schema.field_metadata = <<>>

\* [{"a": 1}, {"a_a": 1, "a": {"a": 2}}]: the second record alone has a_a
C13_Witness ==
    /\ SchemaBuilt
    /\ data = PyList(<<PyDict(<<KeyA>>, <<PyInt(1)>>),
                       PyDict(<<KeyA_A, KeyA>>,
                              <<PyInt(1), PyDict(<<KeyA>>, <<PyInt(2)>>)>>)>>)
    /\ RecordKeys = {KeyA, KeyA_A}
    /\ Len(schema.field_metadata) = 2

\* the records in which the field is absent or explicitly null
NullRecords(field) ==
    {i \in 1..Len(records) :
        \/ ~DictHas(records[i], field)
        \/ DictGet(records[i], field) = PyNone}

\* C14: null_count of a field is the number of records in which the field
\* is absent or null, nullable holds exactly when null_count > 0, and
\* null_count is at most the number of records.
C14_NullCountCountsAbsentAndNull ==
    SchemaBuilt =>
        \A f \in 1..Len(schema.field_metadata) :
            LET m == schema.field_metadata[f] IN
            /\ m.null_count = Cardinality(NullRecords(m.name))
            /\ m.nullable <=> m.null_count > 0
            /\ m.null_count <= Len(records)

\* [null, {"a": 1}]: "value" is null in the first record, absent in the second
C14_Witness ==
    /\ SchemaBuilt
    /\ data = PyList(<<PyNone, PyDict(<<KeyA>>, <<PyInt(1)>>)>>)
    /\ \E f \in 1..Len(schema.field_metadata) :
           /\ schema.field_metadata[f].name = VALUE
           /\ schema.field_metadata[f].null_count = 2
           /\ schema.field_metadata[f].nullable

\* the non-null values gathered for a field, one per record holding one
GatheredNonNull(field) ==
    LET holders == SelectSeq(records,
                             LAMBDA r : /\ DictHas(r, field)
                                        /\ DictGet(r, field) # PyNone)
    IN  [i \in 1..Len(holders) |-> DictGet(holders[i], field)]

\* how many of the values are the first with their text
DistinctTexts(vals) ==
    Cardinality({i \in 1..Len(vals) :
                    \A h \in 1..(i - 1) : Str(vals[h]) # Str(vals[i])})

\* how many of the cells of the column are present and the first with
\* their raw value
DistinctCells(cells) ==
    Cardinality({i \in 1..Len(cells) :
                    /\ cells[i] # PyNaN
                    /\ \A h \in 1..(i - 1) : cells[h] # cells[i]})

\* C15: unique_count is the number of distinct texts of the non-null
\* gathered values in the JSON path, so that 1 and "1" count once, and the
\* number of distinct raw non-null cells in the tabular path.
C15_UniqueCountStringifiedOrRaw ==
    /\ SchemaBuilt =>
           \A f \in 1..Len(schema.field_metadata) :
               LET m == schema.field_metadata[f] IN
               m.unique_count = DistinctTexts(GatheredNonNull(m.name))
    /\ (SchemaBuilt /\ data = PyList(<<PyInt(1), PyStr(<<"1">>)>>)) =>
           schema.field_metadata[1].unique_count = 1
    /\ pc = "ret_csv_parse" =>
           \A f \in 1..Len(schema.field_metadata) :
               schema.field_metadata[f].unique_count
                   = DistinctCells(data.items[f].items)

\* [1, "1"]: the field "value" has one distinct text
C15_Witness ==
    /\ SchemaBuilt
    /\ data = PyList(<<PyInt(1), PyStr(<<"1">>)>>)
    /\ schema.field_metadata[1].name = VALUE
    /\ schema.field_metadata[1].unique_count = 1

\* the column "1", "a" of a DataFrame has two distinct raw values
C15_WitnessTabular ==
    /\ pc = "ret_csv_parse"
    /\ data = PyDict(<<KeyA>>, <<PyList(<<PyStr(<<"1">>), PyStr(<<"a">>)>>)>>)
    /\ schema.field_metadata[1].unique_count = 2

(***************************************************************************)
(* Properties of a parser instance over several calls, checked under Spec  *)
(***************************************************************************)
\* the hierarchy holds only list-valued keys of the last input, and nothing
\* unless that input has the collection shape
OnlyKeysOfLastInput(hierarchy) ==
    /\ \A h \in 1..Len(hierarchy.keys) :
           /\ data.kind = "dict"
           /\ \E i \in ListKeys(data) : data.keys[i] = hierarchy.keys[h]
    /\ ~IsCollectionShape(data) => hierarchy = EmptyDict

\* the hierarchy of the ParsedData object returned last
LastParsedHierarchy == heap[parsed[Len(parsed)].hierarchy]

\* C18: after any sequence of calls on one JSONParser, the parser's
\* hierarchy, the one detect_schema reports and the one the returned
\* ParsedData holds contain only keys of the most recent input, and are
\* empty for an array, a non-collection object or a scalar; the tabular
\* path reports an empty hierarchy.
C18_HierarchyOfLastInputOnly ==
    /\ Extracted => OnlyKeysOfLastInput(hierarchy_map)
    /\ SchemaBuilt => OnlyKeysOfLastInput(schema.hierarchy)
    /\ pc = "ret_parse" => OnlyKeysOfLastInput(LastParsedHierarchy)
    /\ pc = "ret_csv_parse" =>
           /\ schema.hierarchy = EmptyDict
           /\ LastParsedHierarchy = EmptyDict

\* a collection dict was parsed, then the plain object {"a": 1}
C18_Witness ==
    /\ pc = "ret_parse"
    /\ Len(parsed) = 2
    /\ heap[parsed[1].hierarchy] = PyDict(<<KeyA_A>>, <<PyInt(1)>>)
    /\ data = PyDict(<<KeyA>>, <<PyInt(1)>>)
    /\ LastParsedHierarchy = EmptyDict
    /\ hierarchy_map = EmptyDict

\* C19: a step of the parser leaves every ParsedData object returned
\* earlier as it was: its records, its metadata map and the contents of
\* the hierarchy dict it holds.
C19_ReturnedParsedDataUnchanged ==
    [][\A i \in 1..Len(parsed) :
           /\ i <= Len(parsed')
           /\ parsed'[i] = parsed[i]
           /\ heap'[parsed[i].hierarchy] = heap[parsed[i].hierarchy]]_vars

\* a collection dict was parsed and the instance has extracted the records
\* of its next input since
C19_Witness ==
    /\ pc = "ret_extract_records"
    /\ calls = 2
    /\ Len(parsed) = 1
    /\ heap[parsed[1].hierarchy] = PyDict(<<KeyA_A>>, <<PyInt(1)>>)
    /\ hierarchy_ref # parsed[1].hierarchy
    /\ hierarchy_map = EmptyDict

(***************************************************************************)
(* Properties of the validator, checked under SpecValidator                *)
(***************************************************************************)
CheckOrder == <<"exists", "size", "format", "non_empty", "structure">>

\* the content is a non-empty JSON object or array, or CSV rows with a
\* header that has a non-blank cell and at least one data row
StructureAccepted(f) ==
    /\ f.content.read = "ok"
    /\ IF Lower(f.ext) = <<".", "j", "s", "o", "n">>
       THEN /\ f.content.json.kind \in {"dict", "list"}
            /\ f.content.json.items # <<>>
       ELSE /\ Len(f.content.rows) >= 2
            /\ \E c \in 1..Len(f.content.rows[1]) :
                   ~IsBlank(f.content.rows[1][c])

CheckPasses(check, f) ==
    CASE check = "exists" -> f.status = "file"
      [] check = "size" -> f.size <= MAX_FILE_SIZE
      [] check = "format" ->
             Lower(f.ext) \in {<<".", "j", "s", "o", "n">>, <<".", "c", "s", "v">>}
      [] check = "non_empty" -> f.size > 0
      [] check = "structure" -> StructureAccepted(f)

ErrorsOfCheck(check) ==
    CASE check = "exists" -> {E_NOT_FOUND, E_NOT_A_FILE, E_NOT_READABLE}
      [] check = "size" -> {E_TOO_LARGE}
      [] check = "format" -> {E_UNSUPPORTED}
      [] check = "non_empty" -> {E_EMPTY}
      [] check = "structure" ->
             {E_JSON_NO_DATA, E_JSON_NOT_CONTAINER, E_JSON_INVALID, E_ENCODING,
              E_CSV_NO_ROWS, E_CSV_NO_HEADER, E_CSV_NO_DATA_ROWS,
              E_CSV_INVALID, E_STRUCTURE}

\* the checks of the order that the file fails with every earlier one passed
FirstFailures(f) ==
    {k \in 1..Len(CheckOrder) :
        /\ ~CheckPasses(CheckOrder[k], f)
        /\ \A j \in 1..(k - 1) : CheckPasses(CheckOrder[j], f)}

\* C20: in every call of a sequence, validate_file runs the checks exists,
\* size, format, non-empty, structure in this order and stops at the first
\* that fails: the returned list holds the one error of that check and
\* nothing of an earlier call; is_valid holds exactly when the list is
\* empty; a missing file or an unsupported extension returns UNKNOWN with
\* an error.
C20_ChecksInOrderErrorsOfThisCall ==
    pc = "ret_validate_file" =>
        /\ returned.is_valid <=> returned.errors = <<>>
        /\ returned.is_valid <=> FirstFailures(file) = {}
        /\ \A k \in FirstFailures(file) :
               /\ Len(returned.errors) = 1
               /\ returned.errors[1] \in ErrorsOfCheck(CheckOrder[k])
        /\ (file.status = "missing" \/ ~CheckPasses("format", file)) =>
               /\ returned.format = FF_UNKNOWN
               /\ Len(returned.errors) >= 1
        /\ returned.is_valid => returned.format = _detect_format(file)

\* a missing file after a call that detected JSON and failed on its
\* structure
C20_Witness ==
    /\ pc = "ret_validate_file"
    /\ validations = 2
    /\ file.status = "missing"
    /\ file_format = FF_JSON
    /\ returned = [is_valid |-> FALSE, format |-> FF_UNKNOWN,
                   errors |-> <<E_NOT_FOUND>>]

\* the sum of the counts of a hierarchy map
RECURSIVE SumCounts(_, _)
SumCounts(h, n) == IF n = 0 THEN 0 ELSE SumCounts(h, n - 1) + h.items[n].n

\* the object with only its list-valued keys kept, in their order
ListValuedOnly(d) ==
    LET kept == SelectSeq([i \in 1..Len(d.keys) |-> i],
                          LAMBDA i : d.items[i].kind = "list")
    IN  PyDict([i \in 1..Len(kept) |-> d.keys[kept[i]]],
               [i \in 1..Len(kept) |-> d.items[kept[i]]])

\* C22: for a collection dict the records come only from the list-valued
\* keys: there are as many records as the hierarchy counts add up to, every
\* record carries the name of a list-valued key, and the records are those
\* of the same object with its other keys removed.
C22_RecordsOnlyFromListValuedKeys ==
    (Extracted /\ IsCollectionShape(data)) =>
        /\ Len(records) = SumCounts(hierarchy_map, Len(hierarchy_map.keys))
        /\ \A i \in 1..Len(records) :
               \E k \in ListKeys(data) :
                   DictGet(records[i], ENTITY_TYPE) = PyStr(data.keys[k])
        /\ records
               = _flatten_collection_dict(ListValuedOnly(data),
                                          EmptyDict).all_records

\* the key "a" holds 1, not a list: nothing of it is in the record
C22_Witness ==
    /\ pc = "ret_extract_records"
    /\ data = PyDict(<<KeyA_A, KeyA>>, <<PyList(<<PyInt(1)>>), PyInt(1)>>)
    /\ records = <<NonObjectRecord(KeyA_A, PyInt(1))>>
    /\ hierarchy_map = PyDict(<<KeyA_A>>, <<PyInt(1)>>)

\* the paths of a record root that end in a stored value: a value that is
\* no object, or an object met at depth max_depth
Leaves(obj) ==
    {p \in ReachedPaths(obj) :
        \/ ValueAt(obj, p).kind # "dict"
        \/ Len(p) = DEFAULT_MAX_DEPTH + 1}

\* the value stored for a leaf
StoredValue(v) == IF v.kind = "list" THEN FlattenList(v) ELSE v

\* the first position where two paths differ
FirstDifference(p, q) ==
    CHOOSE i \in 1..Len(p) :
        /\ i <= Len(q)
        /\ p[i] # q[i]
        /\ \A h \in 1..(i - 1) : p[h] = q[h]

\* leaf p is handled before leaf q: where the paths part, the key of p
\* comes before the key of q in the object's key order
ProcessedBefore(obj, p, q) ==
    LET i == FirstDifference(p, q)
        parent == ValueAt(obj, SubSeq(p, 1, i - 1))
    IN  DictIndex(parent, p[i]) < DictIndex(parent, q[i])

SameKeyLeaves(obj, p) == {q \in Leaves(obj) : JoinedKey(q) = JoinedKey(p)}

LastProcessed(obj, p) ==
    CHOOSE q \in SameKeyLeaves(obj, p) :
        \A r \in SameKeyLeaves(obj, p) \ {q} : ProcessedBefore(obj, r, q)

Colliding(obj) ==
    {p \in Leaves(obj) : Cardinality(SameKeyLeaves(obj, p)) > 1}

\* C23: when two leaves of one object flatten to the same key, the record
\* holds one entry for that key, its value is the value of the leaf handled
\* last in the object's key order, and the record has fewer fields than the
\* object has leaves.
C23_CollidingKeysLastProcessedWins ==
    \A root \in PlainRoots :
        /\ Cardinality({root.rec.keys[i] : i \in 1..Len(root.rec.keys)})
               = Len(root.rec.keys)
        /\ \A p \in Colliding(root.obj) :
               /\ DictHas(root.rec, JoinedKey(p))
               /\ DictGet(root.rec, JoinedKey(p))
                      = StoredValue(ValueAt(root.obj,
                                            LastProcessed(root.obj, p)))
               /\ Len(root.rec.keys) < Cardinality(Leaves(root.obj))

\* [{"a_a": 1, "a": {"a": 2}}]: the nested leaf is handled last
C23_Witness ==
    /\ pc = "ret_extract_records"
    /\ data = PyList(<<PyDict(<<KeyA_A, KeyA>>,
                              <<PyInt(1), PyDict(<<KeyA>>, <<PyInt(2)>>)>>)>>)
    /\ records = <<PyDict(<<KeyA_A>>, <<PyInt(2)>>)>>

\* a root whose top-level leaf is handled after the nested one
C23_WitnessTopLevelLast ==
    /\ pc = "ret_extract_records"
    /\ \E root \in PlainRoots : \E p \in Colliding(root.obj) :
           /\ Len(p) > 1
           /\ Len(LastProcessed(root.obj, p)) = 1

\* how many of the values are the first of their class of equal values
DistinctValues(vals) ==
    Cardinality({i \in 1..Len(vals) :
                    \A h \in 1..(i - 1) : ~PyEq(vals[h], vals[i])})

SamplesOccur(m) ==
    LET vals == GatheredNonNull(m.name) IN
    /\ Cardinality(m.sample_values) <= 5
    /\ \A v \in m.sample_values :
           /\ v # PyNone
           /\ \E i \in 1..Len(vals) : vals[i] = v

\* C24 (as stated): sample_values holds at most 5 entries, each a non-null
\* value occurring for the field in some record, and never more entries
\* than the field's unique_count.
C24_SamplesAtMostUniqueCount ==
    SchemaBuilt =>
        \A f \in 1..Len(schema.field_metadata) :
            LET m == schema.field_metadata[f] IN
            /\ SamplesOccur(m)
            /\ Cardinality(m.sample_values) <= m.unique_count

\* C24 (amended): sample_values holds at most 5 entries, each a non-null
\* value occurring for the field in some record, and never more entries
\* than the field has distinct non-null values; unique_count, which counts
\* distinct texts, can be smaller: [1, "1"] has two samples and
\* unique_count 1.
C24_SamplesAtMostDistinctValues ==
    SchemaBuilt =>
        \A f \in 1..Len(schema.field_metadata) :
            LET m == schema.field_metadata[f] IN
            /\ SamplesOccur(m)
            /\ Cardinality(m.sample_values)
                   <= DistinctValues(GatheredNonNull(m.name))
            /\ data = PyList(<<PyInt(1), PyStr(<<"1">>)>>) =>
                   /\ Cardinality(m.sample_values) = 2
                   /\ m.unique_count = 1

\* six distinct values: five of them are kept as samples
C24_Witness ==
    /\ SchemaBuilt
    /\ data = SampledArray
    /\ schema.field_metadata[1].unique_count = SAMPLE_LIMIT + 1
    /\ Cardinality(schema.field_metadata[1].sample_values) = SAMPLE_LIMIT

\* [1, "1"]: two samples, one distinct text
C24_WitnessTexts ==
    /\ SchemaBuilt
    /\ data = PyList(<<PyInt(1), PyStr(<<"1">>)>>)
    /\ schema.field_metadata[1].sample_values = {PyInt(1), PyStr(<<"1">>)}
    /\ schema.field_metadata[1].unique_count = 1

\* C25 (as stated): the hierarchy held by the ParsedData object that parse
\* returns equals the hierarchy map built while extracting the records of
\* that input, also when no record was extracted: a collection dict is
\* reported with the length of the list of each list-valued key, 0 for an
\* empty list.
C25_ParsedHierarchyIsTheMapBuilt ==
    pc = "ret_parse" =>
        /\ LastParsedHierarchy = hierarchy_map
        /\ IsCollectionShape(data) =>
               /\ Len(LastParsedHierarchy.keys) = Cardinality(ListKeys(data))
               /\ \A i \in ListKeys(data) :
                      DictGet(LastParsedHierarchy, data.keys[i])
                          = PyInt(Len(data.items[i].items))

\* C27 (as stated): over a non-empty record collection, in the JSON path
\* and in the tabular path, the type of a field is "null" exactly when its
\* null_count is the number of records.
C27_NullTypeExactlyWhenAllCountedNull ==
    /\ (SchemaBuilt /\ records # <<>>) =>
           \A f \in 1..Len(schema.field_metadata) :
               LET m == schema.field_metadata[f] IN
               m.data_type = DT_NULL <=> m.null_count = Len(records)
    /\ (pc = "ret_csv_parse" /\ records # <<>>) =>
           \A f \in 1..Len(schema.field_metadata) :
               LET m == schema.field_metadata[f] IN
               m.data_type = DT_NULL <=> m.null_count = Len(records)

====
